---- MODULE Spec2Model ----
(***************************************************************************)
(* A model of arnold: the scheduling core (src/src/arnold/scheduler.py:    *)
(* the rating engine apply_rating and the candidate selector select_next), *)
(* the CardState records of models.py, the state store (state.py), the     *)
(* deck loader (decks.py) and the handlers of web.py, as whole handlers    *)
(* and, for two server threads, statement by statement under state_lock.   *)
(*                                                                         *)
(* Numbers.  Python floats are modelled as fixed-point decimals:           *)
(*   ease_factor   in units of 1/EaseUnit     (2.5 is 250),                *)
(*   interval_days in units of 1/IntervalUnit (1.0 day is 1000).           *)
(* A float product is rounded to the nearest unit (FMul), as the float     *)
(* product is rounded to the nearest double; sums and differences of the   *)
(* ease constants are exact.  due and now are integer seconds.             *)
(***************************************************************************)
EXTENDS Integers, Sequences, FiniteSets, TLC

VARIABLES
    card,       \* rating harness: the CardState the caller holds for one card, or None
    call,       \* rating harness: the latest apply_rating call (its inputs and what it returned)
    nrated,     \* rating harness: the number of calls made so far
    decks,      \* selector harness: the decks handed to select_next
    state,      \* selector harness: the mapping card key -> CardState
    now,        \* selector harness: the now handed to select_next
    selection,  \* selector harness: the Selection returned, or NoSelection before the call
    selections, \* selector harness: every select_next call so far, its inputs and its result
    log,        \* rating harness: the ratings of the calls made so far, oldest first
    heap,       \* object store: the CardState objects that exist, by object id
    cur,        \* object store: the object the mapping holds for the card, or NullRef
    hist,       \* object store: previous_state references kept by the caller, with their value when kept
    history,    \* web session: cfg.session.history, a list of HistoryEntry
    done_count, \* web session: cfg.session.done_count
    history_cursor, \* web session: cfg.session.history_cursor
    snapshots,  \* web session: the mapping and done_count before each rating not yet undone
    file,       \* state store: the content of the state file, or NoFile
    tmp,        \* state store: the content of '<name>.tmp', or NoFile
    save_pc,    \* state store: where StateStore.save stands
    save_log,   \* state store: the target's content when save began, and which steps of it failed
    reloaded,   \* state store: what StateStore.load of the path returned, or NotLoaded
    deckfile,   \* deck loader: the content of the deck file at path "p0"
    loaded,     \* deck loader: what load_decks returned, or NotLoaded
    studied,    \* study loop: the cards rated so far, in the order select_next returned them
    started,    \* study loop: the mapping and the first Selection when the loop began
    lock,       \* web server: the thread holding cfg.state_lock, or Free
    reqs,       \* web server: for each worker thread, the request it is handling and the steps left
    nreqs,      \* web server: the number of requests received so far
    served,     \* web server: the request answered last, with its response
    unsaved     \* web server: whether the last call of StateStore.save raised

ratingVars == <<card, call, nrated, log>>
selectVars == <<decks, state, now, selection, selections>>
heapVars == <<heap, cur, hist>>
sessionVars == <<history, done_count, history_cursor, snapshots>>
storeVars == <<file, tmp, save_pc, save_log, reloaded>>
deckVars == <<deckfile, loaded>>
studyVars == <<studied, started>>
webVars == <<lock, reqs, nreqs, served, unsaved>>
vars == <<ratingVars, selectVars, heapVars, sessionVars, storeVars, deckVars, studyVars,
          webVars>>

---------------------------------------------------------------------------
(* Units of the fixed-point representation of the two float fields.        *)
EaseUnit == 100
IntervalUnit == 1000

(* scheduler.py constants, in those units.                                 *)
DEFAULT_EASE == 250
MIN_EASE == 130
AGAIN_EASE_PENALTY == 20
HARD_EASE_PENALTY == 15
EASY_EASE_BONUS == 15
AGAIN_DELAY == 60
SECONDS_PER_DAY == 86400

(* Bounds of the model: the apply_rating calls made on the one card of the *)
(* rating harness, and the deck paths handed to load_decks.                *)
MaxRatings == 3
MaxDecks == 2
(* The ratings given to a card that starts new.                            *)
MaxNewRatings == 5
(* The largest number of CardState objects one session constructs.         *)
MaxObjects == 4
(* The largest number of select_next calls on one set of inputs.           *)
MaxSelects == 2
(* The largest number of entries of the session history.                   *)
MaxHistory == 2
(* The largest number of cards in the deck file under study.               *)
MaxCards == 3

Max(a, b) == IF a >= b THEN a ELSE b

(* Python's `x is None`: the absent value of an optional.                  *)
None == [absent |-> TRUE]

(* Python's round() of the quotient num/den (den > 0): to the nearest      *)
(* integer, a tie going to the even neighbour.                             *)
Round(num, den) ==
    LET q == num \div den
        r == num % den
    IN  IF 2 * r < den THEN q
        ELSE IF 2 * r > den THEN q + 1
        ELSE IF q % 2 = 0 THEN q ELSE q + 1

(* The float product x * (num/den) of a fixed-point x, rounded to a unit.  *)
FMul(x, num, den) == Round(x * num, den)

(* A whole number of days as an interval_days value.                       *)
Days(n) == n * IntervalUnit

(* models.py CardState: the four fields of a schedule state.               *)
CardState(due, interval_days, ease_factor, repetitions) ==
    [due |-> due, interval_days |-> interval_days,
     ease_factor |-> ease_factor, repetitions |-> repetitions]

RATINGS == {"again", "hard", "good", "easy"}

(* The exception apply_rating raises for an unknown rating.                *)
ValueError == [raised |-> "ValueError"]

default_state(n) == CardState(n, 0, DEFAULT_EASE, 0)

(* now + int(round(interval * 86_400)).  With interval in units of 1/1000  *)
(* day the seconds are interval * 86400 / 1000 = interval * 432 / 5.       *)
DueAfter(n, interval) ==
    n + Round(interval * (SECONDS_PER_DAY \div 200), IntervalUnit \div 200)

(* scheduler.py line 33: ease = max(MIN_EASE, ease - 0.2).                 *)
(* Faulty variant: the floor applied before the subtraction.                *)
AgainEase_M_floor_first(ease) == Max(MIN_EASE, ease) - AGAIN_EASE_PENALTY

AgainEase(ease) == Max(MIN_EASE, ease - AGAIN_EASE_PENALTY)

(* scheduler.py line 38: ease = max(MIN_EASE, ease - 0.15).                *)
HardEase(ease) == Max(MIN_EASE, ease - HARD_EASE_PENALTY)

(* scheduler.py line 57: ease = ease + 0.15.                               *)
EasyEase(ease) == ease + EASY_EASE_BONUS

(* scheduler.py line 34: reps = 0.                                         *)
(* Faulty variant: the count is not reset.                                 *)
AgainReps_M_keeps(reps) == reps

AgainReps(reps) == 0

(* scheduler.py lines 66-67: an unknown rating raises ValueError.          *)
(* Faulty variant: an unknown rating is taken as a first 'good'.           *)
UnknownRating_M_defaults(rating, n) ==
    CardState(n + SECONDS_PER_DAY, Days(1), DEFAULT_EASE, 1)

UnknownRating(rating, n) == ValueError

(* scheduler.py line 35: interval = 0.0.                                   *)
(* Faulty variant: the interval is not reset.                              *)
AgainInterval_M_keeps(interval) == interval

AgainInterval(interval) == 0

(* scheduler.py lines 40-45: the interval of a 'hard', by the new reps.    *)
(* Faulty variant: the growth tier without its one-day floor.              *)
HardInterval_M_no_floor(reps, interval) ==
    IF reps = 1 THEN Days(1)
    ELSE IF reps = 2 THEN Days(3)
    ELSE FMul(interval, 12, 10)

HardInterval(reps, interval) ==
    IF reps = 1 THEN Days(1)
    ELSE IF reps = 2 THEN Days(3)
    ELSE Max(Days(1), FMul(interval, 12, 10))

(* scheduler.py lines 49-54: the interval of a 'good', by the new reps.    *)
(* Faulty variant: the second learning step missing.                      *)
GoodInterval_M_no_second_tier(reps, interval, ease) ==
    IF reps = 1 THEN Days(1)
    ELSE Max(Days(1), FMul(interval, ease, EaseUnit))

GoodInterval(reps, interval, ease) ==
    IF reps = 1 THEN Days(1)
    ELSE IF reps = 2 THEN Days(6)
    ELSE Max(Days(1), FMul(interval, ease, EaseUnit))

(* scheduler.py lines 59-64: the interval of an 'easy', by the new reps;   *)
(* ease is the value line 57 has already raised.                           *)
(* Faulty variant: the second learning step repeats the first.             *)
EasyInterval_M_repeats_first(reps, interval, ease) ==
    IF reps = 1 THEN Days(2)
    ELSE IF reps = 2 THEN Days(2)
    ELSE Max(Days(1), FMul(FMul(interval, ease, EaseUnit), 13, 10))

EasyInterval(reps, interval, ease) ==
    IF reps = 1 THEN Days(2)
    ELSE IF reps = 2 THEN Days(7)
    ELSE Max(Days(1), FMul(FMul(interval, ease, EaseUnit), 13, 10))

(* scheduler.py apply_rating: the next state for a rating, or ValueError.  *)
apply_rating(existing, rating, n) ==
    LET st == IF existing = None THEN default_state(n) ELSE existing
        ease == st.ease_factor
        reps == st.repetitions
        interval == st.interval_days
    IN  CASE rating = "again" ->
               CardState(n + AGAIN_DELAY, AgainInterval(interval), AgainEase(ease),
                         AgainReps(reps))
          [] rating = "hard" ->
               LET ease1 == HardEase(ease)
                   reps1 == reps + 1
                   interval1 == HardInterval(reps1, interval)
               IN  CardState(DueAfter(n, interval1), interval1, ease1, reps1)
          [] rating = "good" ->
               LET reps1 == reps + 1
                   interval1 == GoodInterval(reps1, interval, ease)
               IN  CardState(DueAfter(n, interval1), interval1, ease, reps1)
          [] rating = "easy" ->
               LET ease1 == EasyEase(ease)
                   reps1 == reps + 1
                   interval1 == EasyInterval(reps1, interval, ease1)
               IN  CardState(DueAfter(n, interval1), interval1, ease1, reps1)
          [] OTHER -> UnknownRating(rating, n)

---------------------------------------------------------------------------
(* The candidate selector.                                                 *)

(* models.py Card: the two fields the selector reads.  key is the pair     *)
(* (deck_id, card_id) of the string "{deck_id}:{card_id}"; order is the    *)
(* pair (deck index, position within the deck).                            *)
Card(deck_id, card_id, deck_index, card_index) ==
    [key |-> <<deck_id, card_id>>, order |-> <<deck_index, card_index>>]

(* models.py Selection.                                                    *)
Selection(chosen, due_count, new_count, total_count, next_due) ==
    [card |-> chosen, due_count |-> due_count, new_count |-> new_count,
     total_count |-> total_count, next_due |-> next_due]

(* dict.get: the value at key, or None.                                    *)
Get(mapping, key) == IF key \in DOMAIN mapping THEN mapping[key] ELSE None

(* Python's < on two tuples of ints of one length.                         *)
RECURSIVE TupleLess(_, _)
TupleLess(a, b) ==
    IF a = <<>> \/ b = <<>> THEN a = <<>> /\ b # <<>>
    ELSE IF Head(a) # Head(b) THEN Head(a) < Head(b)
    ELSE TupleLess(Tail(a), Tail(b))

(* list.sort(key=...): a stable sort of entries [sortkey, card] by their   *)
(* sortkey, equal keys staying in their order of arrival.                  *)
RECURSIVE InsertAfterEqual(_, _)
InsertAfterEqual(sorted, x) ==
    IF sorted = <<>> THEN <<x>>
    ELSE IF TupleLess(x.sortkey, Head(sorted).sortkey) THEN <<x>> \o sorted
    ELSE <<Head(sorted)>> \o InsertAfterEqual(Tail(sorted), x)

RECURSIVE SortedFrom(_, _)
SortedFrom(sorted, rest) ==
    IF rest = <<>> THEN sorted
    ELSE SortedFrom(InsertAfterEqual(sorted, Head(rest)), Tail(rest))

(* Faulty variant: the candidates left in their order of iteration.        *)
Sort_M_unsorted(entries) == entries

Sort(entries) == SortedFrom(<<>>, entries)

(* min() of a non-empty list of ints.                                      *)
MinOf(xs) == CHOOSE m \in {xs[i] : i \in DOMAIN xs} :
                 \A i \in DOMAIN xs : m <= xs[i]

(* scheduler.py line 78: the cards of all decks, deck after deck.          *)
RECURSIVE AllCards(_)
AllCards(ds) ==
    IF ds = <<>> THEN <<>> ELSE Head(ds).cards \o AllCards(Tail(ds))

(* scheduler.py line 90: st.due <= now.                                    *)
(* Faulty variant: a card due exactly now counted as future.               *)
IsDue_M_strict(st, n) == st.due < n

IsDue(st, n) == st.due <= n

(* scheduler.py lines 84-93: the three lists the loop fills, in the order  *)
(* of iteration.                                                           *)
DueCandidates(all_cards, mapping, n) ==
    LET due == SelectSeq(all_cards,
                   LAMBDA c : Get(mapping, c.key) # None
                              /\ IsDue(Get(mapping, c.key), n))
    IN  [i \in DOMAIN due |->
            [sortkey |-> <<Get(mapping, due[i].key).due>> \o due[i].order,
             card |-> due[i]]]

NewCandidates(all_cards, mapping) ==
    LET new == SelectSeq(all_cards, LAMBDA c : Get(mapping, c.key) = None)
    IN  [i \in DOMAIN new |-> [sortkey |-> new[i].order, card |-> new[i]]]

FutureDues(all_cards, mapping, n) ==
    LET future == SelectSeq(all_cards,
                      LAMBDA c : Get(mapping, c.key) # None
                                 /\ ~IsDue(Get(mapping, c.key), n))
    IN  [i \in DOMAIN future |-> Get(mapping, future[i].key).due]

(* scheduler.py lines 98-104: the first due candidate, else the first new  *)
(* candidate, else None.                                                   *)
(* Faulty variant: new cards preferred over due cards.                     *)
Chosen_M_new_first(due_candidates, new_candidates) ==
    IF new_candidates # <<>> THEN new_candidates[1].card
    ELSE IF due_candidates # <<>> THEN due_candidates[1].card
    ELSE None

Chosen(due_candidates, new_candidates) ==
    IF due_candidates # <<>> THEN due_candidates[1].card
    ELSE IF new_candidates # <<>> THEN new_candidates[1].card
    ELSE None

(* scheduler.py line 106.                                                  *)
(* Faulty variant: the latest future due instead of the earliest.          *)
NextDue_M_max(chosen, future_dues) ==
    IF chosen = None /\ future_dues # <<>>
    THEN CHOOSE m \in {future_dues[i] : i \in DOMAIN future_dues} :
             \A i \in DOMAIN future_dues : m >= future_dues[i]
    ELSE None

NextDue(chosen, future_dues) ==
    IF chosen = None /\ future_dues # <<>> THEN MinOf(future_dues) ELSE None

(* scheduler.py lines 80-113: select_next from the flattened card list.    *)
SelectFrom(all_cards, mapping, n) ==
    LET due_candidates == Sort(DueCandidates(all_cards, mapping, n))
        new_candidates == Sort(NewCandidates(all_cards, mapping))
        future_dues == FutureDues(all_cards, mapping, n)
        chosen == Chosen(due_candidates, new_candidates)
    IN  Selection(chosen, Len(due_candidates), Len(new_candidates),
                  Len(all_cards), NextDue(chosen, future_dues))

(* scheduler.py select_next.                                               *)
select_next(ds, mapping, n) == SelectFrom(AllCards(ds), mapping, n)

(* Faulty variant: the lookup inserts a default state for a missing key.   *)
StateGet_M_setdefault(mapping, key, n) ==
    IF key \in DOMAIN mapping THEN mapping
    ELSE [k \in DOMAIN mapping \cup {key} |->
             IF k = key THEN default_state(n) ELSE mapping[k]]

(* scheduler.py line 85: the mapping after state.get(card.key), a lookup   *)
(* that inserts nothing.                                                   *)
StateGet(mapping, key, n) == mapping

(* scheduler.py lines 84-93: the mapping after the loop over all_cards.    *)
RECURSIVE MappingAfterSelect(_, _, _)
MappingAfterSelect(all_cards, mapping, n) ==
    IF all_cards = <<>> THEN mapping
    ELSE MappingAfterSelect(Tail(all_cards),
                            StateGet(mapping, Head(all_cards).key, n), n)

---------------------------------------------------------------------------
(* The rating harness: one card, rated again and again by a caller that    *)
(* stores what apply_rating returns (web.py rate, lines 281-286).          *)

(* What CardState.from_json accepts: any int due, any number for the two   *)
(* float fields, any int repetitions; nothing is range-checked.            *)
StoreDues == {500, 5000}
StoreIntervals == {-1000, 0, 500, 10000}
StoreEases == {100, 130, 135, 150, 250, 300}
StoreRepetitions == {-1, 0, 1, 2, 5}
StoreStates ==
    {CardState(d, i, e, r) : d \in StoreDues, i \in StoreIntervals,
                             e \in StoreEases, r \in StoreRepetitions}

(* The inputs of a call: the clock readings and the rating strings.        *)
Nows == {1000, 2000}
RatingInputs == RATINGS \cup {"bogus", "Good"}

NoCall == [made |-> FALSE]
NoSelection == [made |-> FALSE]
NullRef == 0
NoFile == [exists |-> FALSE]
NotLoaded == [made |-> FALSE]
Idle == "idle"
NoSave == [began |-> FALSE]
NotStarted == [made |-> FALSE]
NoSnapshots == [stack |-> <<>>, popped |-> None]

(* The parts of the program a scenario does not run stay as constructed.   *)
IdleRating ==
    /\ card = None
    /\ call = NoCall
    /\ nrated = 0
    /\ log = <<>>

IdleSelect ==
    /\ decks = <<>>
    /\ state = <<>>
    /\ now = 0
    /\ selection = NoSelection
    /\ selections = <<>>

IdleHeap ==
    /\ heap = <<>>
    /\ cur = NullRef
    /\ hist = <<>>

IdleSession ==
    /\ history = <<>>
    /\ done_count = 0
    /\ history_cursor = 0
    /\ snapshots = NoSnapshots

IdleStore ==
    /\ file = NoFile
    /\ tmp = NoFile
    /\ save_pc = Idle
    /\ save_log = NoSave
    /\ reloaded = NotLoaded

IdleDecks ==
    /\ deckfile = NoFile
    /\ loaded = NotLoaded

IdleStudy == studied = <<>> /\ started = NotStarted

(* The web server before any request: nobody holds state_lock and no       *)
(* worker thread has a request.                                            *)
Free == 0
Workers == 1..2
NoKey == <<"", "">>
NoRequest ==
    [kind |-> "none", htmx |-> FALSE, card_key |-> NoKey, rating |-> "",
     todo |-> <<>>, previous_state |-> None, entry |-> None, snap |-> None,
     seen |-> None, looked |-> None, moved |-> None, did_reset |-> FALSE,
     saved |-> FALSE, status |-> 0, view |-> "none"]

IdleWeb ==
    /\ lock = Free
    /\ reqs = [t \in Workers |-> NoRequest]
    /\ nreqs = 0
    /\ served = NoRequest
    /\ unsaved = FALSE

InitRating ==
    /\ card \in {None} \cup StoreStates
    /\ call = NoCall
    /\ nrated = 0
    /\ log = <<>>
    /\ IdleSelect /\ IdleHeap /\ IdleSession /\ IdleStore /\ IdleDecks /\ IdleStudy /\ IdleWeb

(* One apply_rating call; the caller keeps the returned state, and keeps   *)
(* the old one when the call raised.                                       *)
Rate(r, n) ==
    LET res == apply_rating(card, r, n)
    IN  /\ call' = [made |-> TRUE, existing |-> card, rating |-> r,
                    now |-> n, result |-> res]
        /\ card' = IF res = ValueError THEN card ELSE res

RateStep ==
    /\ nrated < MaxRatings
    /\ \E r \in RatingInputs, n \in Nows : Rate(r, n)
    /\ nrated' = nrated + 1
    /\ UNCHANGED <<log, selectVars, heapVars, sessionVars, storeVars, deckVars, studyVars, webVars>>

NextRating == RateStep

SpecRating == InitRating /\ [][NextRating]_vars

(* The same card rated 'again' only, call after call; nrated stops         *)
(* counting at MaxRatings.  Each request is served, so the step is fair.   *)
AgainStep ==
    /\ \E n \in Nows : Rate("again", n)
    /\ nrated' = IF nrated < MaxRatings THEN nrated + 1 ELSE nrated
    /\ UNCHANGED <<log, selectVars, heapVars, sessionVars, storeVars, deckVars, studyVars, webVars>>

NextAgain == AgainStep

(* A card that starts new (no state), rated MaxNewRatings times; the log   *)
(* records the rating of every call.                                       *)
InitNewCard ==
    /\ IdleRating
    /\ IdleSelect /\ IdleHeap /\ IdleSession /\ IdleStore /\ IdleDecks /\ IdleStudy /\ IdleWeb

RateNewStep ==
    /\ nrated < MaxNewRatings
    /\ \E r \in RatingInputs, n \in Nows : Rate(r, n) /\ log' = Append(log, r)
    /\ nrated' = nrated + 1
    /\ UNCHANGED <<selectVars, heapVars, sessionVars, storeVars, deckVars, studyVars, webVars>>

NextNewCard == RateNewStep

SpecNewCard == InitNewCard /\ [][NextNewCard]_vars

SpecAgain == InitRating /\ [][NextAgain]_vars /\ WF_vars(AgainStep)

---------------------------------------------------------------------------
(* Claims about apply_rating.                                              *)

Rated == call.made /\ call.rating \in RATINGS

(* The state a call started from: the existing state, or the default.      *)
Prior == IF call.existing = None THEN default_state(call.now) ELSE call.existing

(* C1: for every rating and every prior state the store can supply, the    *)
(* returned state has ease_factor >= 1.3 and interval_days >= 0.           *)
C1_EaseAndIntervalFloor ==
    Rated => /\ call.result.ease_factor >= MIN_EASE
             /\ call.result.interval_days >= 0

(* C6: 'again' returns repetitions 0, interval_days 0.0, due now + 60 and  *)
(* ease max(1.3, ease - 0.2), whatever the prior repetitions, interval and *)
(* due were.                                                               *)
C6_AgainResets ==
    (call.made /\ call.rating = "again") =>
        call.result = [due |-> call.now + 60,
                       interval_days |-> 0,
                       ease_factor |-> IF Prior.ease_factor - 20 >= 130
                                       THEN Prior.ease_factor - 20 ELSE 130,
                       repetitions |-> 0]

C6_Witness ==
    /\ call.made /\ call.rating = "again"
    /\ call.existing # None
    /\ call.existing.repetitions = 5
    /\ call.existing.interval_days = Days(10)
    /\ call.existing.ease_factor = DEFAULT_EASE
    /\ call.result.due = call.now + 60

(* C7: hard, good and easy increment repetitions; a new count of 1 gives   *)
(* interval 1.0, 1.0, 2.0 and a new count of 2 gives 3.0, 6.0, 7.0 days,   *)
(* whatever the prior interval and ease; due = now + interval * 86400.     *)
C7_RampDays(rating, reps) ==
    IF reps = 1 THEN (IF rating = "easy" THEN 2 ELSE 1)
    ELSE (IF rating = "hard" THEN 3 ELSE IF rating = "good" THEN 6 ELSE 7)

C7_LearningRamp ==
    (call.made /\ call.rating \in {"hard", "good", "easy"}) =>
        /\ call.result.repetitions = Prior.repetitions + 1
        /\ call.result.repetitions \in {1, 2} =>
             /\ call.result.interval_days
                    = C7_RampDays(call.rating, call.result.repetitions) * 1000
             /\ call.result.due
                    = call.now + C7_RampDays(call.rating, call.result.repetitions) * 86400

C7_Witness ==
    /\ call.made /\ call.rating = "good"
    /\ call.existing = None
    /\ call.result.repetitions = 1
    /\ call.result.interval_days = Days(1)
    /\ call.result.due = call.now + 86400

(* C8: in the growth tier (new count >= 3) the interval is                 *)
(* max(1.0, interval*1.2), max(1.0, interval*ease), max(1.0,               *)
(* interval*ease*1.3) for hard, good, easy, with interval and ease those   *)
(* of the existing state; the ease is max(1.3, ease-0.15), ease, ease+0.15.*)
C8_GrowthTier ==
    (call.made /\ call.rating \in {"hard", "good", "easy"}
        /\ call.result.repetitions >= 3) =>
        LET i == Prior.interval_days
            e == Prior.ease_factor
        IN  /\ call.rating = "hard" =>
                 /\ call.result.interval_days = Max(1000, Round(i * 12, 10))
                 /\ call.result.ease_factor = Max(130, e - 15)
            /\ call.rating = "good" =>
                 /\ call.result.interval_days = Max(1000, Round(i * e, 100))
                 /\ call.result.ease_factor = e
            /\ call.rating = "easy" =>
                 /\ call.result.interval_days
                        = Max(1000, Round(Round(i * e, 100) * 13, 10))
                 /\ call.result.ease_factor = e + 15

(* C10: the due of the returned state is >= the now of the call.           *)
C10_DueNotBeforeNow == Rated => call.result.due >= call.now

C10_Witness ==
    /\ call.made /\ call.rating = "hard"
    /\ call.existing # None
    /\ call.existing.interval_days < 0
    /\ call.existing.repetitions >= 2
    /\ call.existing.due > call.now
    /\ call.result.due = call.now + 86400

(* C9: consecutive 'again' ratings never give an ease below 1.3, reach     *)
(* exactly 1.3 after finitely many calls and then stay there.              *)
C9_AgainConverges ==
    /\ [](call.made => call.result.ease_factor >= 130)
    /\ <>[](card # None /\ card.ease_factor = 130)
    /\ [][(card # None /\ card.ease_factor = 130) => card'.ease_factor = 130]_vars

C9_Witness ==
    /\ call.made /\ nrated >= MaxRatings
    /\ call.existing # None
    /\ call.existing.ease_factor > 130
    /\ card.ease_factor = 130

---------------------------------------------------------------------------
(* The selector harness: decks as load_decks returns them, a state mapping *)
(* as the store holds it, one select_next call.                            *)

(* JSON values carry their JSON type; the text of a file is empty,         *)
(* complete (it parses to a value) or cut short.                           *)
JNull == [t |-> "null"]
JInt(n) == [t |-> "int", v |-> n]
JFloat(x) == [t |-> "float", v |-> x]
JString(str) == [t |-> "string", v |-> str]
JObject(members) == [t |-> "object", v |-> members]
JList(items) == [t |-> "list", v |-> items]

(* dict.get on the members of a JSON object.                               *)
JGet(members, name) ==
    IF name \in DOMAIN members THEN members[name] ELSE JNull

EmptyText == [exists |-> TRUE, text |-> "empty"]
CutShort == [exists |-> TRUE, text |-> "cut short"]
Complete(value) == [exists |-> TRUE, text |-> "complete", value |-> value]

DeckValidationError(path, errors) ==
    [raised |-> "DeckValidationError", path |-> path, errors |-> errors]

(* Faulty variant: the tags are taken as written.                          *)
NormalizeTags_M_as_written(tags_raw) == [i \in DOMAIN tags_raw |-> tags_raw[i].v]

(* decks.py line 132: tuple(sorted(set(tags_raw))), given here as the set  *)
(* it lists.                                                               *)
NormalizeTags(tags_raw) == {tags_raw[i].v : i \in DOMAIN tags_raw}

(* decks.py _content_hashed_card_id: a digest of (front, back, tags),      *)
(* given here as the triple it digests (no two triples share a digest).    *)
content_hashed_card_id(front, back, tags) == <<front, back, tags>>

(* decks.py compute_deck_id: a digest of the resolved path.                *)
compute_deck_id(path) == path

(* Faulty variant: the cards read so far are returned despite the errors.  *)
RaiseIfErrors_M_partial(path, errors, deck) == deck

(* decks.py lines 158-161: any error makes load_deck raise.                *)
RaiseIfErrors(path, errors, deck) ==
    IF errors # <<>> THEN DeckValidationError(path, errors) ELSE deck

(* decks.py lines 101-156: one round of the loop over cards_raw.  acc has  *)
(* the cards kept, the ids seen and the errors found so far.               *)
LoadCard(acc, raw, card_index, deck_id, deck_index) ==
    IF raw.t # "object"
    THEN [acc EXCEPT !.errors = Append(@, <<card_index, "must be an object">>)]
    ELSE
      LET front == JGet(raw.v, "front")
          back == JGet(raw.v, "back")
          id_errors ==
              IF "id" \in DOMAIN raw.v
              THEN << <<card_index, "field 'id' is not allowed">> >> ELSE <<>>
          front_errors ==
              IF "front" \notin DOMAIN raw.v
              THEN << <<card_index, "missing 'front'">> >>
              ELSE IF front.t # "string"
              THEN << <<card_index, "'front' must be a string">> >> ELSE <<>>
          back_errors ==
              IF "back" \notin DOMAIN raw.v
              THEN << <<card_index, "missing 'back'">> >>
              ELSE IF back.t # "string"
              THEN << <<card_index, "'back' must be a string">> >> ELSE <<>>
          tags_raw == IF "tags" \in DOMAIN raw.v THEN raw.v.tags ELSE JList(<<>>)
          tags_ok ==
              /\ tags_raw.t = "list"
              /\ \A i \in DOMAIN tags_raw.v : tags_raw.v[i].t = "string"
          tags == IF tags_ok THEN NormalizeTags(tags_raw.v) ELSE NormalizeTags(<<>>)
          tags_errors ==
              IF tags_ok THEN <<>>
              ELSE << <<card_index, "'tags' must be a list of strings">> >>
          errors == acc.errors \o id_errors \o front_errors \o back_errors
                        \o tags_errors
          has_id == front.t = "string" /\ back.t = "string"
          card_id == content_hashed_card_id(front.v, back.v, tags)
      IN  IF has_id /\ card_id \in acc.seen_ids
          THEN [acc EXCEPT !.errors = errors]
          ELSE IF has_id
          THEN [cards |-> Append(acc.cards,
                                 Card(deck_id, card_id, deck_index, card_index)),
                seen_ids |-> acc.seen_ids \cup {card_id},
                errors |-> errors]
          ELSE [acc EXCEPT !.errors = errors]

(* The loop over enumerate(cards_raw), from position i on (card_index      *)
(* counts from 0).                                                         *)
RECURSIVE LoadCards(_, _, _, _, _)
LoadCards(acc, cards_raw, i, deck_id, deck_index) ==
    IF i > Len(cards_raw) THEN acc
    ELSE LoadCards(LoadCard(acc, cards_raw[i], i - 1, deck_id, deck_index),
                   cards_raw, i + 1, deck_id, deck_index)

(* Deck files by path.  The file at "p0" is the one under study; "p1" has  *)
(* a repeated card (its second card is the first with the tags in another  *)
(* order), "p2" is in object format.                                       *)
RawCard(front, back, tags) ==
    JObject([front |-> JString(front), back |-> JString(back),
             tags |-> JList([i \in DOMAIN tags |-> JString(tags[i])])])
DeckPaths == {"p1", "p2"}
DeckFile(path) ==
    IF path = "p0" THEN deckfile
    ELSE IF path = "p1"
    THEN Complete(JList(<< RawCard("a", "A", <<"t", "u">>),
                           RawCard("a", "A", <<"u", "t">>),
                           RawCard("b", "B", <<>>) >>))
    ELSE Complete(JObject([name |-> JString("two"),
                           cards |-> JList(<< RawCard("c", "C", <<>>) >>)]))

(* decks.py load_deck: the Deck read from the file at path, its cards with *)
(* order (deck_index, card_index), or the DeckValidationError raised.      *)
load_deck(path, deck_index) ==
    LET f == DeckFile(path)
    IN  IF ~f.exists
        THEN DeckValidationError(path, << "Could not read file" >>)
        ELSE IF f.text # "complete"
        THEN DeckValidationError(path, << "Invalid JSON" >>)
        ELSE
          LET data == f.value
              cards_raw ==
                  IF data.t = "list" THEN data
                  ELSE IF data.t = "object" THEN JGet(data.v, "cards")
                  ELSE JNull
          IN  IF data.t = "object" /\ cards_raw = JNull
              THEN DeckValidationError(path, << "Missing 'cards'" >>)
              ELSE IF data.t \notin {"list", "object"}
              THEN DeckValidationError(path, << "Deck JSON must be an array or an object" >>)
              ELSE IF cards_raw.t # "list"
              THEN DeckValidationError(path, << "'cards' must be an array" >>)
              ELSE
                LET deck_id == compute_deck_id(path)
                    acc == LoadCards([cards |-> <<>>, seen_ids |-> {},
                                      errors |-> <<>>],
                                     cards_raw.v, 1, deck_id, deck_index)
                IN  RaiseIfErrors(path, acc.errors,
                                  [path |-> path, deck_id |-> deck_id,
                                   cards |-> acc.cards])

(* decks.py load_decks: the deck at position idx of the path list gets     *)
(* deck index idx (counted from 0); a file that fails goes to failures     *)
(* and the loop goes on.  The result is the pair (decks, failures).        *)
RECURSIVE LoadFrom(_, _, _, _)
LoadFrom(paths, i, ds, failures) ==
    IF i > Len(paths) THEN <<ds, failures>>
    ELSE LET r == load_deck(paths[i], i - 1)
         IN  IF "raised" \in DOMAIN r
             THEN LoadFrom(paths, i + 1, ds, Append(failures, r))
             ELSE LoadFrom(paths, i + 1, Append(ds, r), failures)

load_decks(paths) == LoadFrom(paths, 1, <<>>, <<>>)

PathLists == UNION {[1..k -> DeckPaths] : k \in 0..MaxDecks}

(* The keys a state mapping may hold: those of the deck files and one of   *)
(* a card that is in no loaded deck.                                       *)
MappingKeys ==
    {c.key : c \in UNION {{load_deck(p, 0).cards[i] :
                               i \in DOMAIN load_deck(p, 0).cards} : p \in DeckPaths}}
        \cup {<<"gone", "z">>}
MappingDues == {90, 100, 110, 120}
SelectNows == {95, 100}
Mappings ==
    UNION {[ks -> {CardState(d, Days(1), DEFAULT_EASE, 1) : d \in MappingDues}] :
             ks \in SUBSET MappingKeys}

InitSelect ==
    /\ decks \in {load_decks(ps)[1] : ps \in PathLists}
    /\ state \in Mappings
    /\ now \in SelectNows
    /\ selection = NoSelection
    /\ selections = <<>>
    /\ IdleRating /\ IdleHeap /\ IdleSession /\ IdleStore /\ IdleDecks /\ IdleStudy /\ IdleWeb

Select ==
    /\ Len(selections) < MaxSelects
    /\ selection' = [made |-> TRUE] @@ select_next(decks, state, now)
    /\ selections' = Append(selections,
                            [decks |-> decks, state |-> state, now |-> now,
                             result |-> select_next(decks, state, now)])
    /\ state' = MappingAfterSelect(AllCards(decks), state, now)
    /\ UNCHANGED <<decks, now>>
    /\ UNCHANGED <<ratingVars, heapVars, sessionVars, storeVars, deckVars, studyVars, webVars>>

NextSelect == Select

SpecSelect == InitSelect /\ [][NextSelect]_vars

---------------------------------------------------------------------------
(* Claims about select_next.  The groups are stated on the positions of    *)
(* the supplied cards, independently of the selector's lists.              *)

Supplied == AllCards(decks)
HasState(c) == c.key \in DOMAIN state
DuePos == {i \in DOMAIN Supplied : HasState(Supplied[i]) /\ state[Supplied[i].key].due <= now}
NewPos == {i \in DOMAIN Supplied : ~HasState(Supplied[i])}
FuturePos == {i \in DOMAIN Supplied : HasState(Supplied[i]) /\ state[Supplied[i].key].due > now}

OrderBefore(o1, o2) == o1[1] < o2[1] \/ (o1[1] = o2[1] /\ o1[2] < o2[2])

(* All orderings of a sequence.                                            *)
RECURSIVE Orderings(_)
Orderings(S) ==
    IF S = {} THEN {<<>>}
    ELSE UNION {{<<x>> \o p : p \in Orderings(S \ {x})} : x \in S}

Resupplied == {[i \in DOMAIN p |-> Supplied[p[i]]] : p \in Orderings(DOMAIN Supplied)}

(* C2: when at least one card is due, the returned card is a due card and  *)
(* never a card without state.                                             *)
C2_DuePreemptsNew ==
    (selection.made /\ DuePos # {}) =>
        /\ selection.card # None
        /\ \E i \in DuePos : selection.card = Supplied[i]
        /\ selection.card.key \in DOMAIN state

C2_Witness ==
    /\ selection.made
    /\ DuePos # {}
    /\ \E i \in NewPos : \A j \in DuePos : OrderBefore(Supplied[i].order, Supplied[j].order)
    /\ Cardinality(NewPos) >= 2
    /\ selection.card.key \in DOMAIN state

(* C3: the returned card is the due card of least due and, among those,    *)
(* least order; with no due card, the new card of least order; and it is   *)
(* the same for every ordering in which the cards are supplied.            *)
C3_LeastDueThenOrder ==
    selection.made =>
        /\ DuePos # {} =>
             \E i \in DuePos :
                /\ selection.card = Supplied[i]
                /\ \A j \in DuePos \ {i} :
                      \/ state[Supplied[i].key].due < state[Supplied[j].key].due
                      \/ /\ state[Supplied[i].key].due = state[Supplied[j].key].due
                         /\ OrderBefore(Supplied[i].order, Supplied[j].order)
        /\ (DuePos = {} /\ NewPos # {}) =>
             \E i \in NewPos :
                /\ selection.card = Supplied[i]
                /\ \A j \in NewPos \ {i} :
                      OrderBefore(Supplied[i].order, Supplied[j].order)
        /\ \A cards \in Resupplied :
              SelectFrom(cards, state, now).card = selection.card

C3_Witness ==
    /\ selection.made
    /\ \E i, j \in DuePos :
          /\ i < j
          /\ state[Supplied[j].key].due < state[Supplied[i].key].due
          /\ selection.card = Supplied[j]
    /\ \E i, j \in DuePos :
          /\ i # j
          /\ state[Supplied[j].key].due = state[Supplied[i].key].due
          /\ selection.card = Supplied[i]

(* C4: no card is returned exactly when no card is due and none is new;    *)
(* then next_due is the least due of the future cards, absent when there   *)
(* is none; when a card is returned next_due is absent.                    *)
C4_NoCardAndNextDue ==
    selection.made =>
        /\ selection.card = None <=> (DuePos = {} /\ NewPos = {})
        /\ (selection.card = None /\ FuturePos # {}) =>
              /\ \E i \in FuturePos : selection.next_due = state[Supplied[i].key].due
              /\ \A i \in FuturePos : selection.next_due <= state[Supplied[i].key].due
        /\ (selection.card = None /\ FuturePos = {}) => selection.next_due = None
        /\ selection.card # None => selection.next_due = None

C4_Witness ==
    /\ selection.made
    /\ selection.card = None
    /\ \E i, j \in FuturePos : state[Supplied[i].key].due < state[Supplied[j].key].due
    /\ selection.next_due = 110
    /\ now = 100

(* C5: every supplied card is in exactly one of the groups due, new and    *)
(* future; due_count and new_count are the sizes of the first two,         *)
(* total_count the number of cards; an empty collection gives no card,     *)
(* zero counts and no next_due.                                            *)
C5_PartitionAndCounts ==
    selection.made =>
        /\ selection.due_count = Cardinality(DuePos)
        /\ selection.new_count = Cardinality(NewPos)
        /\ selection.total_count = Len(Supplied)
        /\ selection.due_count + selection.new_count + Cardinality(FuturePos)
               = selection.total_count
        /\ Supplied = <<>> =>
              selection = [made |-> TRUE, card |-> None, due_count |-> 0,
                           new_count |-> 0, total_count |-> 0, next_due |-> None]

C5_Witness ==
    /\ selection.made
    /\ selection.due_count >= 1
    /\ selection.new_count >= 1
    /\ Cardinality(FuturePos) >= 1
    /\ \E i \in DuePos : state[Supplied[i].key].due = now

---------------------------------------------------------------------------
(* Claims about sequences of ratings and about unknown ratings.            *)

(* The ratings of the log that apply_rating accepted.                      *)
Accepted == SelectSeq(log, LAMBDA r : r \in {"again", "hard", "good", "easy"})

(* The number of hard/good/easy ratings after the last 'again' of a list.  *)
RECURSIVE SinceAgain(_)
SinceAgain(rs) ==
    IF rs = <<>> \/ rs[Len(rs)] = "again" THEN 0
    ELSE 1 + SinceAgain(SubSeq(rs, 1, Len(rs) - 1))

(* C11: for a card that starts new, repetitions is the number of hard,     *)
(* good and easy ratings since the latest 'again' (since the first rating  *)
(* when there was none); it is never negative and 0 right after 'again'.   *)
C11_RepetitionsCountSuccesses ==
    /\ (card = None) <=> (Accepted = <<>>)
    /\ card # None =>
         /\ card.repetitions = SinceAgain(Accepted)
         /\ card.repetitions >= 0
         /\ Accepted[Len(Accepted)] = "again" => card.repetitions = 0

C11_Witness ==
    /\ Len(Accepted) = 4
    /\ Accepted[2] = "again"
    /\ card.repetitions = 2

(* C12: a rating outside again, hard, good, easy makes apply_rating raise  *)
(* ValueError; no state is returned and no default rating is applied.      *)
C12_UnknownRatingRaises ==
    (call.made /\ call.rating \notin {"again", "hard", "good", "easy"}) =>
        /\ call.result = [raised |-> "ValueError"]
        /\ card = call.existing

C12_Witness ==
    /\ call.made /\ call.rating = "Good"
    /\ call.existing # None
    /\ call.result = ValueError
    /\ nrated >= 2

---------------------------------------------------------------------------
(* CardState objects.  A CardState is a mutable object; the mapping and    *)
(* the undo history hold references to it.  heap[ref] is the value of the  *)
(* object ref, cur is the reference the mapping holds for the card         *)
(* (NullRef: no entry), hist is the undo history: each entry keeps the     *)
(* reference previous_state and, as a record of the past, the value that   *)
(* object had when the entry was made.                                     *)

Deref(h, ref) == IF ref = NullRef THEN None ELSE h[ref]

(* Faulty variant: the fields of the existing object are overwritten.      *)
Construct_M_in_place(h, existing, value) ==
    IF existing = NullRef
    THEN [heap |-> Append(h, value), ref |-> Len(h) + 1]
    ELSE [heap |-> [h EXCEPT ![existing] = value], ref |-> existing]

(* return CardState(...): a new object; no object of the heap is written.  *)
Construct(h, existing, value) ==
    [heap |-> Append(h, value), ref |-> Len(h) + 1]

(* apply_rating on references: reads the existing object, constructs the   *)
(* result.                                                                  *)
apply_rating_ref(h, existing, rating, n) ==
    Construct(h, existing, apply_rating(Deref(h, existing), rating, n))

HistoryEntryRef(previous_state, h) ==
    [previous_state |-> previous_state, value |-> Deref(h, previous_state)]

InitHeap ==
    /\ IdleRating /\ IdleSelect /\ IdleHeap /\ IdleSession
    /\ IdleStore /\ IdleDecks /\ IdleStudy /\ IdleWeb

(* rate: the card's entry is replaced by the result of apply_rating and    *)
(* the reference to the previous object goes to the history.               *)
RateRef ==
    /\ Len(heap) < MaxObjects
    /\ \E rating \in RATINGS, n \in Nows :
          LET r == apply_rating_ref(heap, cur, rating, n)
          IN  /\ heap' = r.heap
              /\ cur' = r.ref
              /\ hist' = Append(hist, HistoryEntryRef(cur, heap))
    /\ UNCHANGED <<ratingVars, selectVars, sessionVars, storeVars,
                   deckVars, studyVars, webVars>>

(* undo: the latest entry is popped and its previous_state object is put   *)
(* back (the entry is removed when previous_state is None).                *)
UndoRef ==
    /\ hist # <<>>
    /\ cur' = hist[Len(hist)].previous_state
    /\ hist' = SubSeq(hist, 1, Len(hist) - 1)
    /\ UNCHANGED <<heap, ratingVars, selectVars, sessionVars, storeVars,
                   deckVars, studyVars, webVars>>

NextHeap == RateRef \/ UndoRef

SpecHeap == InitHeap /\ [][NextHeap]_vars

(* C13: apply_rating does not modify the state object it is given, it      *)
(* returns a newly constructed one: every previous_state kept in the undo  *)
(* history still has the values it had before its rating, however many     *)
(* ratings followed, and the object in the mapping is none of them.        *)
C13_ExistingNotModified ==
    \A i \in DOMAIN hist :
        /\ Deref(heap, hist[i].previous_state) = hist[i].value
        /\ hist[i].previous_state # cur
        /\ \A j \in DOMAIN hist :
              i # j => hist[i].previous_state # hist[j].previous_state

C13_Witness ==
    /\ Len(hist) = 3
    /\ Len(heap) = 4
    /\ hist[1].previous_state = NullRef
    /\ hist[3].value.repetitions = 2
    /\ heap[cur].repetitions = 0

---------------------------------------------------------------------------
---------------------------------------------------------------------------
(* The state store (state.py): writing a state and reading it back are    *)
(* two conversions between CardState and JSON values.                      *)

TypeError == [raised |-> "TypeError"]
StateFileError == [raised |-> "StateFileError"]

(* Faulty variant: interval_days is written as a whole number of days.     *)
to_json_M_whole_days(st) ==
    JObject([due |-> JInt(st.due),
             interval_days |-> JInt(st.interval_days \div IntervalUnit),
             ease_factor |-> JFloat(st.ease_factor),
             repetitions |-> JInt(st.repetitions)])

(* models.py CardState.to_json.                                            *)
to_json(st) ==
    JObject([due |-> JInt(st.due),
             interval_days |-> JFloat(st.interval_days),
             ease_factor |-> JFloat(st.ease_factor),
             repetitions |-> JInt(st.repetitions)])

(* float(x) of a JSON number, in units of 1/unit.                          *)
ToFloat(number, unit) ==
    IF number.t = "int" THEN number.v * unit ELSE number.v

(* models.py CardState.from_json.                                          *)
from_json(data) ==
    IF data.t # "object" THEN TypeError
    ELSE LET due == JGet(data.v, "due")
             interval_days == JGet(data.v, "interval_days")
             ease_factor == JGet(data.v, "ease_factor")
             repetitions == JGet(data.v, "repetitions")
         IN  IF due.t # "int" THEN TypeError
             ELSE IF interval_days.t \notin {"int", "float"} THEN TypeError
             ELSE IF ease_factor.t \notin {"int", "float"} THEN TypeError
             ELSE IF repetitions.t # "int" THEN TypeError
             ELSE CardState(due.v, ToFloat(interval_days, IntervalUnit),
                            ToFloat(ease_factor, EaseUnit), repetitions.v)

(* state.py lines 74-78: the payload save writes.                          *)
Payload(cards, n) ==
    JObject([version |-> JInt(1),
             updated_at |-> JInt(n),
             cards |-> JObject([k \in DOMAIN cards |-> to_json(cards[k])])])

(* state.py _load_from_disk: the mapping read from a file, or the error.   *)
load_from_disk(f) ==
    IF ~f.exists THEN <<>>
    ELSE IF f.text = "empty" THEN <<>>
    ELSE IF f.text = "cut short" THEN StateFileError
    ELSE LET raw == f.value
         IN  IF raw.t # "object" THEN StateFileError
             ELSE LET cards_obj ==
                        IF JGet(raw.v, "cards").t = "object"
                        THEN raw.v.cards.v ELSE raw.v
                      parsed == [k \in DOMAIN cards_obj |-> from_json(cards_obj[k])]
                  IN  IF \E k \in DOMAIN cards_obj : parsed[k] = TypeError
                      THEN StateFileError
                      ELSE parsed

(* The mappings a store may hold and the files it may find.                *)
StoreKeys == {"d1:c1", "d2:c2"}
HeldStates ==
    {CardState(123, Days(1), DEFAULT_EASE, 1),
     CardState(5000, 500, 135, 0),
     CardState(500, -1000, 100, -1)}
StoreMappings == UNION {[ks -> HeldStates] : ks \in SUBSET StoreKeys}
EarlierNow == 999
LegacyFile ==
    Complete(JObject([k \in {"d1:c1"} |->
        JObject([due |-> JInt(123), interval_days |-> JInt(1),
                 ease_factor |-> JFloat(DEFAULT_EASE), repetitions |-> JInt(1)])]))
InitialFiles ==
    {NoFile, EmptyText, LegacyFile}
        \cup {Complete(Payload(m, EarlierNow)) : m \in StoreMappings}
InitialTmps == {NoFile, CutShort}

InitStore ==
    /\ state \in StoreMappings
    /\ now \in Nows
    /\ file \in InitialFiles
    /\ tmp \in InitialTmps
    /\ save_pc = Idle
    /\ save_log = NoSave
    /\ reloaded = NotLoaded
    /\ decks = <<>> /\ selection = NoSelection /\ selections = <<>>
    /\ IdleRating /\ IdleHeap /\ IdleSession /\ IdleDecks /\ IdleStudy /\ IdleWeb

StoreFrame ==
    UNCHANGED <<ratingVars, decks, state, now, selection, selections,
                heapVars, sessionVars, deckVars, studyVars, webVars>>

(* Faulty variant: the finally clause removes nothing.                     *)
Unlink_M_keeps(f) == f

(* state.py line 93: tmp_path.unlink().                                    *)
Unlink(f) == NoFile

(* state.py line 83: tmp_path.open("w") creates or empties the temporary   *)
(* file; an OSError leaves it as it was.                                   *)
SaveOpen ==
    /\ save_pc = Idle
    /\ save_log' = [began |-> TRUE, old |-> file, failed |-> FALSE,
                    unlink_failed |-> FALSE]
    /\ \/ tmp' = EmptyText /\ save_pc' = "write"
       \/ tmp' = tmp /\ save_pc' = "failed"
    /\ UNCHANGED <<file, reloaded>>
    /\ StoreFrame

(* state.py lines 84-87: dump, flush and fsync; an OSError leaves the      *)
(* temporary file empty, cut short or complete.                            *)
SaveWrite ==
    /\ save_pc = "write"
    /\ \/ tmp' = Complete(Payload(state, now)) /\ save_pc' = "replace"
       \/ /\ tmp' \in {EmptyText, CutShort, Complete(Payload(state, now))}
          /\ save_pc' = "failed"
    /\ UNCHANGED <<file, save_log, reloaded>>
    /\ StoreFrame

(* state.py line 89: os.replace moves the temporary file over the target   *)
(* in one step, or raises and moves nothing.                               *)
SaveReplace ==
    /\ save_pc = "replace"
    /\ \/ file' = tmp /\ tmp' = NoFile /\ save_pc' = "finally"
       \/ UNCHANGED <<file, tmp>> /\ save_pc' = "failed"
    /\ UNCHANGED <<save_log, reloaded>>
    /\ StoreFrame

(* An OSError raised inside the try block reaches the finally clause.      *)
SaveFailed ==
    /\ save_pc = "failed"
    /\ save_log' = [save_log EXCEPT !.failed = TRUE]
    /\ save_pc' = "finally"
    /\ UNCHANGED <<file, tmp, reloaded>>
    /\ StoreFrame

(* state.py lines 90-95: the finally clause removes the temporary file if  *)
(* it exists; an OSError of the removal is swallowed.  Then save returns,  *)
(* or the pending OSError goes on to the caller.                           *)
SaveFinally ==
    /\ save_pc = "finally"
    /\ \/ /\ tmp' = IF tmp.exists THEN Unlink(tmp) ELSE tmp
          /\ save_log' = save_log
       \/ /\ tmp.exists
          /\ tmp' = tmp
          /\ save_log' = [save_log EXCEPT !.unlink_failed = TRUE]
    /\ save_pc' = IF save_log.failed THEN "raised" ELSE "returned"
    /\ UNCHANGED <<file, reloaded>>
    /\ StoreFrame

(* state.py StateStore.load of the path, at any moment of a save.          *)
Load ==
    /\ reloaded' = [made |-> TRUE, after |-> save_pc,
                    cards |-> load_from_disk(file)]
    /\ reloaded' # reloaded
    /\ UNCHANGED <<file, tmp, save_pc, save_log>>
    /\ StoreFrame

NextStore ==
    SaveOpen \/ SaveWrite \/ SaveReplace \/ SaveFailed \/ SaveFinally \/ Load

SpecStore == InitStore /\ [][NextStore]_vars

SaveOver == save_pc \in {"returned", "raised"}

(* The target holds the complete content it had when save began, or the    *)
(* complete new payload.                                                   *)
TargetWhole ==
    save_log.began => file \in {save_log.old, Complete(Payload(state, now))}

(* As C16 was stated: the target is whole at every point of a save, and no *)
(* temporary file remains once save has returned or raised.                *)
C16_NoTmpRemains ==
    /\ TargetWhole
    /\ SaveOver => ~tmp.exists

(* C16: at every point of a save the target holds the complete previous    *)
(* content or the complete new content, and a load of it at any point      *)
(* gives the previous or the new mapping.  No temporary file remains once  *)
(* save has returned; once save has raised, one remains only if its        *)
(* removal failed as well.                                                 *)
C16_AtomicSave ==
    /\ TargetWhole
    /\ save_log.began =>
          load_from_disk(file) \in {load_from_disk(save_log.old), state}
    /\ save_pc = "returned" => ~tmp.exists /\ file = Complete(Payload(state, now))
    /\ (save_pc = "raised" /\ ~save_log.unlink_failed) => ~tmp.exists
    /\ save_pc = "raised" => file = save_log.old

C16_Witness ==
    /\ save_pc = "raised"
    /\ ~save_log.unlink_failed
    /\ ~tmp.exists
    /\ file = save_log.old
    /\ file.exists /\ file.text = "complete"
    /\ load_from_disk(file) # state
    /\ reloaded.made /\ reloaded.after = "replace"

(* C17: save followed by StateStore.load of the same path gives a mapping  *)
(* equal to the saved one: the same keys and, for each key, the same due,  *)
(* interval_days, ease_factor and repetitions.                             *)
C17_SaveLoadRoundTrip ==
    /\ save_pc = "returned" => load_from_disk(file) = state
    /\ (reloaded.made /\ reloaded.after = "returned") =>
          /\ DOMAIN reloaded.cards = DOMAIN state
          /\ \A k \in DOMAIN state :
                /\ reloaded.cards[k].due = state[k].due
                /\ reloaded.cards[k].interval_days = state[k].interval_days
                /\ reloaded.cards[k].ease_factor = state[k].ease_factor
                /\ reloaded.cards[k].repetitions = state[k].repetitions

C17_Witness ==
    /\ reloaded.made /\ reloaded.after = "returned"
    /\ DOMAIN state = StoreKeys
    /\ reloaded.cards["d2:c2"].interval_days = 500
    /\ save_log.old = LegacyFile

---------------------------------------------------------------------------
(* The web session (web.py): the handlers rate and undo of one server      *)
(* process, each taken as a whole.  The ghost snapshots keeps, for every   *)
(* rating not yet undone, the mapping and done_count from before it, and   *)
(* the one the latest undo took off.                                       *)

HistoryEntry(card_key, rating, previous_state) ==
    [card_key |-> card_key, rating |-> rating, previous_state |-> previous_state]

Without(mapping, key) == [k \in DOMAIN mapping \ {key} |-> mapping[k]]

(* Faulty variant: the entries of cards that are not loaded are dropped.   *)
With_M_only_loaded(mapping, key, value) ==
    [k \in (DOMAIN mapping \cap StoreKeys) \cup {key} |->
        IF k = key THEN value ELSE mapping[k]]

With(mapping, key, value) ==
    [k \in DOMAIN mapping \cup {key} |-> IF k = key THEN value ELSE mapping[k]]

(* Faulty variant: the entry of a card that was new is left in place.      *)
Restore_M_keeps_new(mapping, entry) ==
    IF entry.previous_state = None THEN mapping
    ELSE With(mapping, entry.card_key, entry.previous_state)

(* web.py lines 328-333: undo puts previous_state back, or removes the     *)
(* entry when there was none.                                              *)
Restore(mapping, entry) ==
    IF entry.previous_state = None THEN Without(mapping, entry.card_key)
    ELSE With(mapping, entry.card_key, entry.previous_state)

(* What StateStore.save leaves on disk: the new payload, or, when it       *)
(* raises, the target as it was.                                           *)
AfterSave(f, cards, n) == {Complete(Payload(cards, n)), f}

cards_by_key == StoreKeys
SessionNows == {1000}
SessionMappings ==
    { <<>>,
      [k \in {"d1:c1"} |-> CardState(123, Days(1), DEFAULT_EASE, 1)],
      [k \in {"d1:c1", "old:c9"} |-> CardState(500, 500, 135, 0)] }

InitSession ==
    /\ state \in SessionMappings
    /\ file = Complete(Payload(state, EarlierNow))
    /\ tmp = NoFile /\ save_pc = Idle /\ save_log = NoSave
    /\ reloaded = NotLoaded
    /\ now = 0 /\ decks = <<>> /\ selection = NoSelection /\ selections = <<>>
    /\ IdleSession
    /\ IdleRating /\ IdleHeap /\ IdleDecks /\ IdleStudy /\ IdleWeb

SessionFrame ==
    UNCHANGED <<ratingVars, decks, now, selection, selections, heapVars,
                tmp, save_pc, save_log, reloaded, deckVars, studyVars, webVars>>

(* web.py rate, lines 264-300, for a known card and rating.                *)
rate ==
    /\ Len(history) < MaxHistory
    /\ \E card_key \in cards_by_key, rating \in RATINGS, n \in SessionNows :
          LET previous_state == Get(state, card_key)
          IN  /\ history_cursor' = 0
              /\ state' = With(state, card_key,
                               apply_rating(previous_state, rating, n))
              /\ history' = Append(history,
                                   HistoryEntry(card_key, rating, previous_state))
              /\ done_count' = done_count + 1
              /\ file' \in AfterSave(file, state', n)
              /\ snapshots' = [stack |-> Append(snapshots.stack,
                                    [state |-> state, done_count |-> done_count]),
                               popped |-> None]
    /\ SessionFrame

(* web.py undo, lines 318-353.                                             *)
undo ==
    /\ \E n \in SessionNows :
          /\ history_cursor' = 0
          /\ IF history = <<>>
             THEN UNCHANGED <<state, history, done_count, file, snapshots>>
             ELSE LET entry == history[Len(history)]
                  IN  /\ history' = SubSeq(history, 1, Len(history) - 1)
                      /\ state' = Restore(state, entry)
                      /\ done_count' = Max(0, done_count - 1)
                      /\ file' \in AfterSave(file, state', n)
                      /\ snapshots' =
                            [stack |-> SubSeq(snapshots.stack, 1,
                                              Len(snapshots.stack) - 1),
                             popped |-> snapshots.stack[Len(snapshots.stack)]]
    /\ SessionFrame

NextSession == rate \/ undo

SpecSession == InitSession /\ [][NextSession]_vars

(* C15: undo is the inverse of rate.  The history and the ratings not yet  *)
(* undone go together, and after every undo the mapping and done_count are *)
(* those from before the rating it reverted -- also after k ratings and k  *)
(* undos, which take the entries off last in, first out; a card that was   *)
(* new has no entry again.                                                 *)
C15_UndoInvertsRate ==
    /\ Len(snapshots.stack) = Len(history)
    /\ snapshots.popped # None =>
          /\ state = snapshots.popped.state
          /\ done_count = snapshots.popped.done_count
    /\ \A i \in DOMAIN history :
          history[i].previous_state = Get(snapshots.stack[i].state, history[i].card_key)

C15_Witness ==
    /\ snapshots.popped # None
    /\ history = <<>>
    /\ state = <<>>
    /\ done_count = 0
    /\ file.exists /\ load_from_disk(file) = <<>>
    /\ file.value.v.updated_at = JInt(1000)

---------------------------------------------------------------------------
(* The deck loader (decks.py): load_decks on a list of paths, one of whose *)
(* files, "p0", holds any cards of RawPool or is broken as a whole.        *)

RawPool ==
    { RawCard("q", "Q", <<"t", "u">>),
      RawCard("q", "Q", <<"u", "t", "u">>),
      JObject([front |-> JString("q"), back |-> JString("Q")]),
      JString("not an object"),
      JObject([front |-> JString("q")]),
      JObject([front |-> JInt(1), back |-> JString("Q")]),
      JObject([id |-> JString("7"), front |-> JString("q"), back |-> JString("Q"),
               tags |-> JList(<<JString("t"), JString("u")>>)]),
      JObject([front |-> JString("q"), back |-> JString("Q"), tags |-> JString("t")]),
      JObject([front |-> JString("q"), back |-> JString("Q"),
               tags |-> JList(<<JString("t"), JInt(1)>>)]) }

RawLists == UNION {[1..k -> RawPool] : k \in 0..MaxCards}

BrokenFiles ==
    { NoFile, CutShort, Complete(JInt(3)),
      Complete(JObject([name |-> JString("n")])),
      Complete(JObject([cards |-> JString("x")])) }

DeckFiles ==
    {Complete(JList(cs)) : cs \in RawLists}
        \cup {Complete(JObject([name |-> JString("n"), cards |-> JList(cs)])) :
                 cs \in {cs \in RawLists : Len(cs) = 1}}
        \cup BrokenFiles

LoaderPaths == {"p0", "p1"}
LoaderPathLists == UNION {[1..k -> LoaderPaths] : k \in 1..MaxDecks}

InitDecks ==
    /\ deckfile \in DeckFiles
    /\ loaded = NotLoaded
    /\ IdleRating /\ IdleSelect /\ IdleHeap /\ IdleSession /\ IdleStore /\ IdleStudy /\ IdleWeb

(* cli.py line 45: load_decks(decks) on the paths of the command line.     *)
LoadDecks ==
    /\ ~loaded.made
    /\ \E paths \in LoaderPathLists :
          loaded' = [made |-> TRUE, paths |-> paths,
                     decks |-> load_decks(paths)[1],
                     failures |-> load_decks(paths)[2]]
    /\ UNCHANGED <<deckfile, ratingVars, selectVars, heapVars, sessionVars,
                   storeVars, studyVars, webVars>>

NextDecks == LoadDecks

SpecDecks == InitDecks /\ [][NextDecks]_vars

---------------------------------------------------------------------------
(* Claims about the deck loader, stated on the raw cards of the files.     *)

(* The raw cards of a deck file whose top level is well formed.            *)
RawCardsOf(f) == IF f.value.t = "list" THEN f.value.v ELSE f.value.v.cards.v

HasCardArray(f) ==
    /\ f.exists /\ f.text = "complete"
    /\ \/ f.value.t = "list"
       \/ /\ f.value.t = "object"
          /\ "cards" \in DOMAIN f.value.v
          /\ f.value.v.cards.t = "list"

IsString(members, name) == name \in DOMAIN members /\ members[name].t = "string"

(* A card as the loader must reject it: not an object, front or back       *)
(* missing or not a string, an id field, tags that are not a list of       *)
(* strings.                                                                *)
InvalidCard(raw) ==
    \/ raw.t # "object"
    \/ /\ raw.t = "object"
       /\ \/ ~IsString(raw.v, "front")
          \/ ~IsString(raw.v, "back")
          \/ "id" \in DOMAIN raw.v
          \/ /\ "tags" \in DOMAIN raw.v
             /\ \/ raw.v.tags.t # "list"
                \/ /\ raw.v.tags.t = "list"
                   /\ \E i \in DOMAIN raw.v.tags.v : raw.v.tags.v[i].t # "string"

TagSet(raw) ==
    IF "tags" \in DOMAIN raw.v
    THEN {raw.v.tags.v[i].v : i \in DOMAIN raw.v.tags.v} ELSE {}

SameContent(r1, r2) ==
    /\ r1.v.front.v = r2.v.front.v
    /\ r1.v.back.v = r2.v.back.v
    /\ TagSet(r1) = TagSet(r2)

(* The positions of the raw cards that repeat no earlier card.             *)
FirstOccurrences(cards_raw) ==
    {i \in DOMAIN cards_raw :
        \A j \in 1..(i - 1) : ~SameContent(cards_raw[j], cards_raw[i])}

(* C18: a deck has no two cards with the same card_id; of the input cards  *)
(* with the same front, back and set of tags only the first is kept; the   *)
(* kept cards are in input order, their order positions strictly rising.   *)
C18_DedupedInOrder ==
    loaded.made =>
        \A k \in DOMAIN loaded.decks :
            LET deck == loaded.decks[k]
                cards_raw == RawCardsOf(DeckFile(deck.path))
            IN  /\ \A i, j \in DOMAIN deck.cards :
                      i < j => /\ deck.cards[i].key # deck.cards[j].key
                               /\ deck.cards[i].order[1] = deck.cards[j].order[1]
                               /\ deck.cards[i].order[2] < deck.cards[j].order[2]
                /\ {deck.cards[i].order[2] + 1 : i \in DOMAIN deck.cards}
                      = FirstOccurrences(cards_raw)
                /\ \A i \in DOMAIN deck.cards :
                      LET raw == cards_raw[deck.cards[i].order[2] + 1]
                      IN  /\ deck.cards[i].key[1] = deck.deck_id
                          /\ deck.cards[i].key[2][1] = raw.v.front.v
                          /\ deck.cards[i].key[2][2] = raw.v.back.v

C18_Witness ==
    /\ loaded.made
    /\ loaded.paths = <<"p0">>
    /\ Len(loaded.decks) = 1
    /\ Len(RawCardsOf(deckfile)) = 3
    /\ Len(loaded.decks[1].cards) = 2
    /\ loaded.decks[1].cards[2].order = <<0, 2>>
    /\ TagSet(RawCardsOf(deckfile)[2]) = {"t", "u"}

(* Whether load_deck must fail on a file.                                  *)
MustFail(f) ==
    \/ ~HasCardArray(f)
    \/ /\ HasCardArray(f)
       /\ \E i \in DOMAIN RawCardsOf(f) : InvalidCard(RawCardsOf(f)[i])

Positions(paths) == [i \in DOMAIN paths |-> i]
ValidPositions(paths) ==
    SelectSeq(Positions(paths), LAMBDA i : ~MustFail(DeckFile(paths[i])))
FailingPositions(paths) ==
    SelectSeq(Positions(paths), LAMBDA i : MustFail(DeckFile(paths[i])))

(* C19: a file with any invalid card gives no Deck but a                   *)
(* DeckValidationError, whatever its other cards; load_decks records the   *)
(* failure and loads the other files, and the cards of every deck carry    *)
(* the position of its path in the path list as deck index.                *)
C19_AllOrNothingPerFile ==
    loaded.made =>
        LET valid == ValidPositions(loaded.paths)
            failing == FailingPositions(loaded.paths)
        IN  /\ Len(loaded.decks) = Len(valid)
            /\ Len(loaded.failures) = Len(failing)
            /\ \A k \in DOMAIN loaded.decks :
                  /\ loaded.decks[k].path = loaded.paths[valid[k]]
                  /\ \A i \in DOMAIN loaded.decks[k].cards :
                        loaded.decks[k].cards[i].order[1] = valid[k] - 1
            /\ \A k \in DOMAIN loaded.failures :
                  /\ loaded.failures[k].raised = "DeckValidationError"
                  /\ loaded.failures[k].path = loaded.paths[failing[k]]

C19_Witness ==
    /\ loaded.made
    /\ loaded.paths = <<"p0", "p1">>
    /\ HasCardArray(deckfile)
    /\ Len(RawCardsOf(deckfile)) = 3
    /\ ~InvalidCard(RawCardsOf(deckfile)[1])
    /\ InvalidCard(RawCardsOf(deckfile)[2])
    /\ RawCardsOf(deckfile)[2].t = "object"
    /\ "id" \in DOMAIN RawCardsOf(deckfile)[2].v
    /\ Len(loaded.failures) = 1
    /\ Len(loaded.decks) = 1
    /\ loaded.decks[1].cards[1].order = <<1, 0>>

---------------------------------------------------------------------------
(* The study loop: with the clock held at one now, the caller shows the    *)
(* card select_next returns, rates it, stores the result and asks again    *)
(* (web.py study and rate).  The decks are those of any path list of the   *)
(* command line, the same path twice included.                             *)

StudyNows == {100}
StudyDues == {90, 100, 120}
StudyMappings ==
    UNION {[ks -> {CardState(d, Days(1), DEFAULT_EASE, 1) : d \in StudyDues}] :
             ks \in SUBSET MappingKeys}

InitStudy ==
    /\ decks \in {load_decks(ps)[1] : ps \in PathLists}
    /\ state \in StudyMappings
    /\ now \in StudyNows
    /\ selection = NoSelection
    /\ selections = <<>>
    /\ IdleStudy
    /\ IdleRating /\ IdleHeap /\ IdleSession /\ IdleStore /\ IdleDecks /\ IdleWeb

StudyFrame ==
    UNCHANGED <<ratingVars, decks, now, selections, heapVars, sessionVars,
                storeVars, deckVars, webVars>>

(* web.py study: the first view of the session.                            *)
StudyView ==
    /\ ~started.made
    /\ selection' = [made |-> TRUE] @@ select_next(decks, state, now)
    /\ started' = [made |-> TRUE, state |-> state,
                   selection |-> select_next(decks, state, now)]
    /\ UNCHANGED <<state, studied>>
    /\ StudyFrame

(* web.py rate of the card on view, then the selector for the next view.   *)
StudyRate ==
    /\ started.made
    /\ selection.card # None
    /\ \E rating \in RATINGS :
          state' = With(state, selection.card.key,
                        apply_rating(Get(state, selection.card.key), rating, now))
    /\ studied' = Append(studied, selection.card)
    /\ selection' = [made |-> TRUE] @@ select_next(decks, state', now)
    /\ UNCHANGED started
    /\ StudyFrame

NextStudy == StudyView \/ StudyRate

SpecStudy == InitStudy /\ [][NextStudy]_vars

(* The positions of the supplied cards that were due, and that were new,   *)
(* when the loop began.                                                    *)
StartDue ==
    {i \in DOMAIN Supplied :
        /\ Supplied[i].key \in DOMAIN started.state
        /\ started.state[Supplied[i].key].due <= now}
StartNew == {i \in DOMAIN Supplied : Supplied[i].key \notin DOMAIN started.state}

(* Whether card c1 is to be studied before card c2: a due card before a    *)
(* new one, due cards by (due, order), new cards by order.                 *)
StudiedBefore(c1, c2) ==
    LET due1 == c1.key \in DOMAIN started.state
        due2 == c2.key \in DOMAIN started.state
    IN  IF due1 /\ due2
        THEN \/ started.state[c1.key].due < started.state[c2.key].due
             \/ /\ started.state[c1.key].due = started.state[c2.key].due
                /\ OrderBefore(c1.order, c2.order)
        ELSE IF ~due1 /\ ~due2 THEN OrderBefore(c1.order, c2.order)
        ELSE due1

(* C20: at a fixed now every card due or new at the start is selected      *)
(* exactly once, the due ones first by (due, order), then the new ones by  *)
(* order; a card just rated does not come back; and select_next returns no *)
(* card after exactly due_count + new_count ratings.                       *)
C20_EachSelectedOnce ==
    started.made =>
        /\ \A i, j \in DOMAIN studied :
              i < j => /\ studied[i] # studied[j]
                       /\ StudiedBefore(studied[i], studied[j])
        /\ \A i \in DOMAIN studied :
              /\ \E p \in StartDue \cup StartNew : Supplied[p] = studied[i]
              /\ selection.card # studied[i]
              /\ state[studied[i].key].due > now
        /\ (selection.card = None) <=>
              (Len(studied) = started.selection.due_count
                                  + started.selection.new_count)
        /\ selection.card = None =>
              \A p \in StartDue \cup StartNew :
                  \E i \in DOMAIN studied : studied[i] = Supplied[p]

---------------------------------------------------------------------------
(* The interval_days of the state a call was applied to (that of the       *)
(* default state when there was none).                                     *)
PriorInterval == IF call.existing = None THEN 0 ELSE call.existing.interval_days

(* C30: for a card that starts new, every hard, good or easy rating        *)
(* returns an interval_days strictly greater than that of the state it was *)
(* applied to and a due at least 86400 seconds after now; only 'again'     *)
(* lowers interval_days.                                                   *)
C30_IntervalGrows ==
    (call.made /\ call.rating \in RATINGS) =>
        /\ call.rating \in {"hard", "good", "easy"} =>
              /\ call.result.interval_days > PriorInterval
              /\ call.result.due >= call.now + 86400
        /\ call.result.interval_days < PriorInterval => call.rating = "again"

C30_Witness ==
    /\ call.made /\ call.rating = "hard"
    /\ call.existing # None
    /\ call.existing.repetitions = 3
    /\ call.existing.interval_days = 3600
    /\ call.result.interval_days = 4320
    /\ Len(Accepted) = 4

---------------------------------------------------------------------------
(* The key a step of the session acts on: that of the entry it appends to  *)
(* the history or takes off it.                                            *)
ActedKey ==
    IF Len(history') > Len(history) THEN history'[Len(history')].card_key
    ELSE history[Len(history)].card_key

(* C28: a rate or an undo changes the mapping at the key of its card only; *)
(* every other entry, those of cards that are not loaded included, stays   *)
(* as it was and is in the file the handler saves.                         *)
C28_OnlyActedKeyChanges ==
    [][ /\ \A k \in DOMAIN state \cup DOMAIN state' :
              Get(state', k) # Get(state, k) => k = ActedKey
        /\ file' # file =>
              /\ DOMAIN load_from_disk(file') = DOMAIN state'
              /\ \A k \in DOMAIN state' : load_from_disk(file')[k] = state'[k]
      ]_vars

C28_Witness ==
    /\ snapshots.popped # None
    /\ Len(history) = 1
    /\ history[1].card_key = "d2:c2"
    /\ file.value.v.updated_at = JInt(1000)
    /\ "old:c9" \in DOMAIN load_from_disk(file)
    /\ load_from_disk(file)["old:c9"] = CardState(500, 500, 135, 0)
    /\ state["old:c9"] = CardState(500, 500, 135, 0)

---------------------------------------------------------------------------
(* The web handlers of web.py under a threaded server: each worker thread  *)
(* runs one request at a time, and a request is the list of steps it has   *)
(* left.  A step is one statement on the shared objects (the mapping, the  *)
(* session fields, the state file); taking state_lock is a step of its     *)
(* own, and leaving a `with cfg.state_lock` block is part of the block's   *)
(* last statement.  What a handler does on its own locals between two      *)
(* shared steps (RunLocal) happens with the step before it.                *)

MaxRequests == 3

WebNow == 1000

Min(a, b) == IF a <= b THEN a ELSE b

(* web.py lines 121-124: the card of every key, a later deck's card        *)
(* replacing an earlier one of the same key.                               *)
CardsByKey(ds) ==
    LET all_cards == AllCards(ds)
        keys == {all_cards[i].key : i \in DOMAIN all_cards}
    IN  [k \in keys |->
            all_cards[CHOOSE i \in DOMAIN all_cards :
                         /\ all_cards[i].key = k
                         /\ \A j \in DOMAIN all_cards :
                               all_cards[j].key = k => j <= i]]

(* Python's list[idx]: a negative index counts from the end, and an index  *)
(* outside [-len, len) raises.                                             *)
IndexError == [raised |-> "IndexError"]
Index(list, idx) ==
    IF 0 <= idx /\ idx < Len(list) THEN list[idx + 1]
    ELSE IF idx < 0 /\ -Len(list) <= idx THEN list[Len(list) + idx + 1]
    ELSE IndexError

(* Faulty variant: the cursor moves without being clamped.                 *)
move_history_cursor_M_unclamped(cursor, history_len, delta) == cursor + delta

(* web.py lines 139-148, _move_history_cursor: the cursor after the move.  *)
move_history_cursor(cursor, history_len, delta) ==
    IF history_len = 0 THEN 0
    ELSE Max(0, Min(history_len, cursor + delta))

(* models.py / web.py lines 86-93: StudySnapshot.                          *)
StudySnapshot(sel, done, cursor, history_len) ==
    [selection |-> sel, done_count |-> done,
     history_cursor |-> cursor, history_len |-> history_len]

(* Faulty variant: the lock never keeps a thread out.                      *)
Available_M_always(l) == TRUE

(* threading.Lock: acquire goes through when nobody holds the lock.        *)
Available(l) == l = Free

(* Faulty variant: the lookup does not compare the cursor with the length. *)
BeyondHistory_M_unchecked(cursor, history_len) == FALSE

(* web.py line 173: if history_cursor > history_len.                       *)
BeyondHistory(cursor, history_len) == cursor > history_len

(* The steps of the helpers and of the two critical sections.              *)
ResetSteps == <<"acquire", "reset_cursor">>
MoveSteps == <<"acquire", "move_cursor">>
SnapshotSteps == <<"acquire", "snapshot_read", "snapshot_select">>
LookupSteps == <<"acquire", "lookup", "history_render">>
ExistingSteps == <<"acquire", "read_existing", "render_revealed">>
FallbackSteps == ResetSteps \o SnapshotSteps \o <<"render_study">>

(* Faulty variant: the previous state is read before the lock is taken.    *)
RateSteps_M_read_outside ==
    <<"rate_read", "acquire", "rate_reset", "rate_write", "rate_append",
      "rate_count", "rate_save">>

(* Faulty variant: the mapping is saved before the new state is written.   *)
RateSteps_M_save_first ==
    <<"acquire", "rate_reset", "rate_read", "rate_save", "rate_write",
      "rate_append", "rate_count">>

(* web.py lines 279-295: the critical section of rate.                     *)
RateSteps ==
    <<"acquire", "rate_reset", "rate_read", "rate_write", "rate_append",
      "rate_count", "rate_save">>

(* Faulty variant: done_count and the file are written also when the      *)
(* history had no entry.                                                   *)
UndoRest_M_saves_always(entry) ==
    IF entry = None THEN <<"undo_count", "undo_save">>
    ELSE <<"undo_restore", "undo_count", "undo_save">>

(* Faulty variant: an undo leaves done_count as it is.                     *)
UndoRest_M_keeps_count(entry) ==
    IF entry = None THEN <<>> ELSE <<"undo_restore", "undo_save">>

(* web.py lines 326-337, undo: what the block does after the pop, which is *)
(* nothing when the history had no entry.                                  *)
UndoRest(entry) ==
    IF entry = None THEN <<>>
    ELSE <<"undo_restore", "undo_count", "undo_save">>

(* web.py lines 321-323: the critical section of undo up to the pop.       *)
UndoSteps == <<"acquire", "undo_reset", "undo_pop">>

(* Faulty variant: a rejected rate is answered like an accepted one.       *)
Rejected_M_never(ds, card_key, rating) == FALSE

(* web.py line 269: rating is None or card_key not in cfg.cards_by_key.    *)
Rejected(ds, card_key, rating) ==
    rating \notin RATINGS \/ card_key \notin DOMAIN CardsByKey(ds)

(* The steps of each handler, in the order of its code.                    *)
Plan(ds, kind, htmx, card_key, rating) ==
    CASE kind = "study" -> ResetSteps \o SnapshotSteps \o <<"render_study">>
      [] kind = "reveal" -> ResetSteps \o SnapshotSteps \o <<"reveal_card">>
      [] kind = "rate" ->
            IF Rejected(ds, card_key, rating)
            THEN IF ~htmx THEN <<"redirect">>
                 ELSE ResetSteps \o SnapshotSteps \o <<"render_400">>
            ELSE RateSteps \o SnapshotSteps \o <<"rate_respond">>
      [] kind = "undo" -> UndoSteps \o SnapshotSteps \o <<"undo_respond">>
      [] kind = "history_back" -> MoveSteps \o SnapshotSteps \o <<"history_view">>
      [] kind = "history_next" -> MoveSteps \o SnapshotSteps \o <<"next_view">>

Request(ds, kind, htmx, card_key, rating) ==
    [NoRequest EXCEPT !.kind = kind, !.htmx = htmx, !.card_key = card_key,
                      !.rating = rating,
                      !.todo = Plan(ds, kind, htmx, card_key, rating)]

Respond(r, status, view) ==
    [r EXCEPT !.todo = <<>>, !.status = status, !.view = view]

LocalSteps ==
    {"render_study", "render_400", "redirect", "rate_respond", "reveal_card",
     "render_revealed", "undo_respond", "history_view", "next_view",
     "history_render"}

(* One statement of a handler on its own locals: the choice of the         *)
(* response, or of the helper it goes on with.                             *)
Local(ds, r) ==
    LET step == Head(r.todo)
    IN  CASE step = "render_study" -> Respond(r, 200, "study")
          [] step = "render_400" -> Respond(r, 400, "study")
          [] step = "redirect" -> Respond(r, 302, "redirect")
          [] step = "rate_respond" ->
                IF r.htmx THEN Respond(r, 200, "study")
                ELSE Respond(r, 302, "redirect")
          [] step = "reveal_card" ->
                IF r.card_key \notin DOMAIN CardsByKey(ds)
                THEN IF r.htmx THEN Respond(r, 200, "study")
                     ELSE Respond(r, 302, "redirect")
                ELSE [r EXCEPT !.todo = ExistingSteps]
          [] step = "render_revealed" -> Respond(r, 200, "revealed")
          [] step = "undo_respond" ->
                IF r.entry = None THEN Respond(r, 400, "study")
                ELSE IF r.entry.card_key \notin DOMAIN CardsByKey(ds)
                THEN Respond(r, 200, "study")
                ELSE Respond(r, 200, "revealed")
          [] step = "next_view" ->
                IF r.snap.history_cursor <= 0 THEN Respond(r, 200, "study")
                ELSE [r EXCEPT !.todo = <<"history_view">>]
          [] step = "history_view" ->
                IF r.snap.history_cursor <= 0
                THEN [r EXCEPT !.todo = FallbackSteps,
                               !.looked = [cursor |-> r.snap.history_cursor,
                                           found |-> FALSE]]
                ELSE [r EXCEPT !.todo = LookupSteps]
          [] step = "history_render" ->
                IF ~r.looked.found THEN [r EXCEPT !.todo = FallbackSteps]
                ELSE Respond(r, 200, "history")

RECURSIVE RunLocal(_, _)
RunLocal(ds, r) ==
    IF r.todo = <<>> \/ Head(r.todo) \notin LocalSteps THEN r
    ELSE RunLocal(ds, Local(ds, r))

(* The requests a browser or another client may send.                      *)
WebDecks == load_decks(<<"p1">>)[1]
WebKeys == DOMAIN CardsByKey(WebDecks)
FormRatings == {"good"}
RequestInputs ==
    {Request(WebDecks, kind, FALSE, NoKey, "") :
        kind \in {"study", "undo", "history_back", "history_next"}}
    \cup {Request(WebDecks, "reveal", FALSE, k, "") : k \in WebKeys \cup {NoKey}}
    \cup {Request(WebDecks, "rate", FALSE, k, r) : k \in WebKeys, r \in FormRatings}
    \cup {Request(WebDecks, "rate", h, NoKey, "good") : h \in BOOLEAN}
    \cup {Request(WebDecks, "rate", h, CHOOSE k \in WebKeys : TRUE, "bogus") :
             h \in BOOLEAN}

WebMappings ==
    { [k \in {<<"gone", "z">>} |-> CardState(500, Days(1), DEFAULT_EASE, 1)] }

InitWeb ==
    /\ decks = WebDecks
    /\ state \in WebMappings
    /\ now = WebNow
    /\ selection = NoSelection
    /\ selections = <<>>
    /\ file = Complete(Payload(state, EarlierNow))
    /\ tmp = NoFile /\ save_pc = Idle /\ save_log = NoSave
    /\ reloaded = NotLoaded
    /\ IdleSession /\ IdleWeb
    /\ IdleRating /\ IdleHeap /\ IdleDecks /\ IdleStudy

WebFrame ==
    UNCHANGED <<ratingVars, decks, now, selections, heapVars,
                tmp, save_pc, save_log, reloaded, deckVars, studyVars>>

At(t, step) == reqs[t].todo # <<>> /\ Head(reqs[t].todo) = step

(* The thread goes on with the rest of its steps; a request with no step   *)
(* left is answered, and its thread is free for the next.                  *)
Proceed(t, r) ==
    LET after == RunLocal(decks, [r EXCEPT !.todo = Tail(@)])
    IN  IF after.todo = <<>>
        THEN /\ reqs' = [reqs EXCEPT ![t] = NoRequest]
             /\ served' = [after EXCEPT !.seen = None, !.previous_state = None]
        ELSE /\ reqs' = [reqs EXCEPT ![t] = after]
             /\ served' = served

(* An exception leaves the with block, which releases the lock, and the    *)
(* server answers 500.                                                     *)
Raise(t, r) ==
    /\ reqs' = [reqs EXCEPT ![t] = NoRequest]
    /\ served' = Respond(r, 500, "error")
    /\ lock' = Free

(* A request arrives and is given to the first thread that has none.       *)
Begin(t) ==
    /\ reqs[t] = NoRequest
    /\ \A u \in Workers : u < t => reqs[u] # NoRequest
    /\ nreqs < MaxRequests
    /\ \E r \in RequestInputs :
          LET first == RunLocal(decks, r)
          IN  IF first.todo = <<>>
              THEN reqs' = reqs /\ served' = first
              ELSE reqs' = [reqs EXCEPT ![t] = first] /\ served' = served
    /\ nreqs' = nreqs + 1
    /\ UNCHANGED <<lock, unsaved, state, selection, file, sessionVars>>
    /\ WebFrame

(* with cfg.state_lock: entering the block.                                *)
Acquire(t) ==
    /\ At(t, "acquire")
    /\ Available(lock)
    /\ lock' = t
    /\ Proceed(t, reqs[t])
    /\ UNCHANGED <<nreqs, unsaved, state, selection, file, sessionVars>>
    /\ WebFrame

(* web.py lines 135-137, _reset_history_cursor.                            *)
ResetCursor(t) ==
    /\ At(t, "reset_cursor")
    /\ history_cursor' = 0
    /\ lock' = Free
    /\ Proceed(t, [reqs[t] EXCEPT !.did_reset = (history_cursor' = 0)])
    /\ UNCHANGED <<nreqs, unsaved, state, selection, file, history, done_count, snapshots>>
    /\ WebFrame

(* web.py lines 139-148, _move_history_cursor.                             *)
MoveCursor(t) ==
    /\ At(t, "move_cursor")
    /\ LET delta == IF reqs[t].kind = "history_back" THEN 1 ELSE -1
           moved == move_history_cursor(history_cursor, Len(history), delta)
       IN  /\ history_cursor' = moved
           /\ Proceed(t, [reqs[t] EXCEPT
                             !.moved = [from |-> history_cursor,
                                        history_len |-> Len(history),
                                        to |-> moved]])
    /\ lock' = Free
    /\ UNCHANGED <<nreqs, unsaved, state, selection, file, history, done_count, snapshots>>
    /\ WebFrame

(* web.py lines 152-155, _snapshot: the length and the clamped cursor.     *)
SnapshotRead(t) ==
    /\ At(t, "snapshot_read")
    /\ LET history_len == Len(history)
           cursor == Min(history_cursor, history_len)
       IN  /\ history_cursor' = cursor
           /\ Proceed(t, [reqs[t] EXCEPT
                             !.seen = state,
                             !.snap = [history_cursor |-> cursor,
                                       history_len |-> history_len]])
    /\ UNCHANGED <<lock, nreqs, unsaved, state, selection, file, history, done_count,
                   snapshots>>
    /\ WebFrame

(* web.py lines 156-165, _snapshot: select_next and done_count.            *)
SnapshotSelect(t) ==
    /\ At(t, "snapshot_select")
    /\ selection' = select_next(decks, state, now)
    /\ state' = MappingAfterSelect(AllCards(decks), state, now)
    /\ Proceed(t, [reqs[t] EXCEPT
                      !.snap = StudySnapshot(selection', done_count,
                                             @.history_cursor, @.history_len)])
    /\ lock' = Free
    /\ UNCHANGED <<nreqs, unsaved, file, sessionVars>>
    /\ WebFrame

(* web.py lines 253-254, reveal: the state of the card to preview.         *)
ReadExisting(t) ==
    /\ At(t, "read_existing")
    /\ Proceed(t, [reqs[t] EXCEPT !.previous_state = Get(state, reqs[t].card_key)])
    /\ lock' = Free
    /\ UNCHANGED <<nreqs, unsaved, state, selection, file, sessionVars>>
    /\ WebFrame

(* web.py lines 171-177, _history_card_for_cursor under the lock.          *)
Lookup(t) ==
    /\ At(t, "lookup")
    /\ LET cursor == reqs[t].snap.history_cursor
           history_len == Len(history)
           entry == Index(history, history_len - cursor)
       IN  IF BeyondHistory(cursor, history_len)
           THEN /\ Proceed(t, [reqs[t] EXCEPT
                                  !.looked = [cursor |-> cursor, found |-> FALSE]])
                /\ lock' = Free
           ELSE IF entry = IndexError
           THEN Raise(t, [reqs[t] EXCEPT
                             !.looked = [cursor |-> cursor, found |-> FALSE]])
           ELSE /\ Proceed(t, [reqs[t] EXCEPT
                                  !.looked =
                                     [cursor |-> cursor,
                                      found |-> entry.card_key \in
                                                   DOMAIN CardsByKey(decks),
                                      card_key |-> entry.card_key]])
                /\ lock' = Free
    /\ UNCHANGED <<nreqs, unsaved, state, selection, file, sessionVars>>
    /\ WebFrame

(* web.py line 280, rate: cfg.session.history_cursor = 0.                  *)
RateReset(t) ==
    /\ At(t, "rate_reset")
    /\ history_cursor' = 0
    /\ Proceed(t, [reqs[t] EXCEPT !.did_reset = (history_cursor' = 0)])
    /\ UNCHANGED <<lock, nreqs, unsaved, state, selection, file, history, done_count,
                   snapshots>>
    /\ WebFrame

(* web.py line 281, rate: previous_state = cfg.state_store.cards.get(key). *)
RateRead(t) ==
    /\ At(t, "rate_read")
    /\ Proceed(t, [reqs[t] EXCEPT !.previous_state = Get(state, reqs[t].card_key)])
    /\ UNCHANGED <<lock, nreqs, unsaved, state, selection, file, sessionVars>>
    /\ WebFrame

(* web.py lines 282-286, rate: the new state is written to the mapping.    *)
RateWrite(t) ==
    /\ At(t, "rate_write")
    /\ state' = With(state, reqs[t].card_key,
                     apply_rating(reqs[t].previous_state, reqs[t].rating, now))
    /\ snapshots' =
          [snapshots EXCEPT
              !.stack = Append(@, [state |-> state, done_count |-> done_count])]
    /\ Proceed(t, reqs[t])
    /\ UNCHANGED <<lock, nreqs, unsaved, selection, file, history, done_count,
                   history_cursor>>
    /\ WebFrame

(* web.py lines 287-293, rate: the history entry.                          *)
RateAppend(t) ==
    /\ At(t, "rate_append")
    /\ history' = Append(history,
                         HistoryEntry(reqs[t].card_key, reqs[t].rating,
                                      reqs[t].previous_state))
    /\ Proceed(t, reqs[t])
    /\ UNCHANGED <<lock, nreqs, unsaved, state, selection, file, done_count,
                   history_cursor, snapshots>>
    /\ WebFrame

(* web.py line 294, rate: cfg.session.done_count += 1.                     *)
RateCount(t) ==
    /\ At(t, "rate_count")
    /\ done_count' = done_count + 1
    /\ Proceed(t, reqs[t])
    /\ UNCHANGED <<lock, nreqs, unsaved, state, selection, file, history,
                   history_cursor, snapshots>>
    /\ WebFrame

(* web.py line 295 and line 337: cfg.state_store.save(now=now) returns,    *)
(* the file holding the mapping, and the with block ends.                  *)
Save(t) ==
    /\ At(t, "rate_save") \/ At(t, "undo_save")
    /\ file' = Complete(Payload(state, now))
    /\ lock' = Free
    /\ Proceed(t, [reqs[t] EXCEPT !.saved = TRUE])
    /\ unsaved' = FALSE
    /\ UNCHANGED <<nreqs, state, selection, sessionVars>>
    /\ WebFrame

(* cfg.state_store.save raises: the file is as it was.                     *)
SaveRaises(t) ==
    /\ At(t, "rate_save") \/ At(t, "undo_save")
    /\ Raise(t, reqs[t])
    /\ unsaved' = TRUE
    /\ UNCHANGED <<nreqs, state, selection, file, sessionVars>>
    /\ WebFrame

(* web.py line 322, undo: cfg.session.history_cursor = 0.                  *)
UndoReset(t) ==
    /\ At(t, "undo_reset")
    /\ history_cursor' = 0
    /\ Proceed(t, [reqs[t] EXCEPT !.did_reset = (history_cursor' = 0)])
    /\ UNCHANGED <<lock, nreqs, unsaved, state, selection, file, history, done_count,
                   snapshots>>
    /\ WebFrame

(* web.py line 323, undo: the last entry is taken off the history; with    *)
(* no entry the block has nothing more to do.                              *)
UndoPop(t) ==
    /\ At(t, "undo_pop")
    /\ LET entry == IF history # <<>> THEN history[Len(history)] ELSE None
       IN  /\ history' = IF history # <<>>
                         THEN SubSeq(history, 1, Len(history) - 1)
                         ELSE history
           /\ Proceed(t, [reqs[t] EXCEPT !.entry = entry,
                                         !.todo = <<"undo_pop">> \o UndoRest(entry)
                                                     \o Tail(@)])
           /\ lock' = IF UndoRest(entry) = <<>> THEN Free ELSE lock
    /\ UNCHANGED <<nreqs, unsaved, state, selection, file, done_count, history_cursor,
                   snapshots>>
    /\ WebFrame

(* web.py lines 326-333, undo: the mapping gets the previous state back.   *)
UndoRestore(t) ==
    /\ At(t, "undo_restore")
    /\ state' = Restore(state, reqs[t].entry)
    /\ snapshots' =
          IF snapshots.stack = <<>> THEN snapshots
          ELSE [stack |-> SubSeq(snapshots.stack, 1, Len(snapshots.stack) - 1),
                popped |-> snapshots.stack[Len(snapshots.stack)]]
    /\ Proceed(t, reqs[t])
    /\ UNCHANGED <<lock, nreqs, unsaved, selection, file, history, done_count,
                   history_cursor>>
    /\ WebFrame

(* web.py line 336, undo: done_count = max(0, done_count - 1).             *)
UndoCount(t) ==
    /\ At(t, "undo_count")
    /\ done_count' = Max(0, done_count - 1)
    /\ Proceed(t, reqs[t])
    /\ UNCHANGED <<lock, nreqs, unsaved, state, selection, file, history,
                   history_cursor, snapshots>>
    /\ WebFrame

NextWeb ==
    \E t \in Workers :
        \/ Begin(t)
        \/ Acquire(t)
        \/ ResetCursor(t)
        \/ MoveCursor(t)
        \/ SnapshotRead(t)
        \/ SnapshotSelect(t)
        \/ ReadExisting(t)
        \/ Lookup(t)
        \/ RateReset(t)
        \/ RateRead(t)
        \/ RateWrite(t)
        \/ RateAppend(t)
        \/ RateCount(t)
        \/ Save(t)
        \/ SaveRaises(t)
        \/ UndoReset(t)
        \/ UndoPop(t)
        \/ UndoRestore(t)
        \/ UndoCount(t)

SpecWeb == InitWeb /\ [][NextWeb]_vars

(* C21: a thread that stands at a statement on the mapping, the session    *)
(* fields or the file holds state_lock; select_next is called on the       *)
(* mapping its snapshot block found; and in rate the state read is still   *)
(* the mapping's when the new one is written, and the new one is in the    *)
(* mapping when the history entry is made.                                 *)
C21_SharedStateUnderLock ==
    \A t \in Workers :
        reqs[t].todo # <<>> =>
            LET r == reqs[t]
                step == Head(r.todo)
            IN  /\ step # "acquire" => lock = t
                /\ step = "snapshot_select" => r.seen = state
                /\ step = "rate_write" => r.previous_state = Get(state, r.card_key)
                /\ step = "rate_append" =>
                      Get(state, r.card_key) =
                         apply_rating(r.previous_state, r.rating, now)

C21_Witness ==
    /\ At(1, "rate_append") /\ At(2, "acquire")
    /\ reqs[2].kind = "rate" /\ reqs[2].card_key = reqs[1].card_key
    /\ Len(reqs[2].todo) = Len(RateSteps \o SnapshotSteps) + 1
    /\ lock = 1
    /\ Len(history) = 1


(* The mapping after every entry of a history is undone, the last first.   *)
RECURSIVE RestoreAll(_, _)
RestoreAll(mapping, entries) ==
    IF entries = <<>> THEN mapping
    ELSE RestoreAll(Restore(mapping, entries[Len(entries)]),
                    SubSeq(entries, 1, Len(entries) - 1))

(* The mapping that came out of the i-th rating not yet undone.            *)
MappingAfter(i) ==
    IF i = Len(history) THEN state ELSE snapshots.stack[i + 1].state

(* C22: whenever no handler is inside a critical section, however the      *)
(* requests of the two threads interleaved, every history entry holds the  *)
(* value the mapping had at its key just before its rating was written,    *)
(* every rating was applied to what the rating before it left, and undoing *)
(* all entries gives the mapping from before the first of them.            *)
C22_NoLostUpdate ==
    lock = Free =>
        /\ Len(snapshots.stack) = Len(history)
        /\ \A i \in DOMAIN history :
              LET before == snapshots.stack[i].state
                  entry == history[i]
              IN  /\ entry.previous_state = Get(before, entry.card_key)
                  /\ MappingAfter(i) =
                        With(before, entry.card_key,
                             apply_rating(entry.previous_state, entry.rating, now))
        /\ history # <<>> => RestoreAll(state, history) = snapshots.stack[1].state

C22_Witness ==
    /\ lock = Free
    /\ Len(history) = 2
    /\ history[1].card_key = history[2].card_key
    /\ history[1].previous_state = None
    /\ history[2].previous_state = apply_rating(None, "good", now)
    /\ \A t \in Workers :
          /\ reqs[t].kind = "rate"
          /\ reqs[t].todo = SnapshotSteps \o <<"rate_respond">>

(* A rate request whose form the handler turns away: the rating is none   *)
(* of the four, or the card key is that of no loaded card.                 *)
InvalidForm(r) ==
    r.kind = "rate" /\ (r.rating \notin RATINGS \/ r.card_key \notin WebKeys)

RatingSteps == {RateSteps[i] : i \in DOMAIN RateSteps} \ {"acquire"}

(* C23: a rate request with an invalid rating or an unknown card key has   *)
(* no statement of the rating block before it, apply_rating included; no   *)
(* step of it changes the mapping, the history, done_count or the state    *)
(* file; and it is answered 400 when it came from htmx, by a redirect      *)
(* otherwise.                                                              *)
C23_InvalidRateChangesNothing ==
    [][ /\ \A t \in Workers :
              InvalidForm(reqs[t]) =>
                  /\ \A i \in DOMAIN reqs[t].todo : reqs[t].todo[i] \notin RatingSteps
                  /\ reqs'[t] # reqs[t] =>
                        /\ state' = state
                        /\ history' = history
                        /\ done_count' = done_count
                        /\ file' = file
        /\ (served' # served /\ InvalidForm(served')) =>
              /\ served'.status = IF served'.htmx THEN 400 ELSE 302
              /\ ~served'.saved
              /\ state' = state /\ history' = history
              /\ done_count' = done_count /\ file' = file
      ]_vars

C23_Witness ==
    /\ InvalidForm(served)
    /\ served.htmx /\ served.status = 400 /\ served.rating = "bogus"
    /\ served.card_key \in WebKeys
    /\ served.snap.history_len = 1 /\ served.snap.done_count = 1
    /\ Len(history) = 1 /\ done_count = 1
    /\ served.card_key \in DOMAIN state
    /\ load_from_disk(file) = state

(* An undo request that found the history empty, after its pop.           *)
EmptyUndo(r) ==
    /\ r.kind = "undo" /\ r.entry = None
    /\ \A i \in DOMAIN r.todo : r.todo[i] \notin {"undo_reset", "undo_pop"}

(* C24: an undo that finds the history empty writes neither the mapping    *)
(* nor done_count nor the state file, in its pop and in every step after   *)
(* it, and is answered 400; and done_count is never negative.              *)
C24_EmptyUndoChangesNothing ==
    [][ /\ \A t \in Workers :
              (/\ (At(t, "undo_pop") /\ history = <<>>) \/ EmptyUndo(reqs[t])
               /\ reqs'[t] # reqs[t]) =>
                      /\ state' = state
                      /\ history' = history
                      /\ done_count' = done_count
                      /\ file' = file
        /\ (served' # served /\ EmptyUndo(served')) =>
              /\ served'.status = 400
              /\ ~served'.saved
        /\ done_count' >= 0
      ]_vars

C24_Witness ==
    /\ EmptyUndo(served)
    /\ served.status = 400 /\ served.view = "study"
    /\ served.snap.history_len = 0 /\ served.snap.done_count = 0
    /\ history = <<>> /\ done_count = 0
    /\ snapshots.popped # None
    /\ file = Complete(Payload(state, now))

(* The requests a thread is handling and the one answered last.           *)
Handled == {reqs[t] : t \in Workers} \cup {served}

(* The cursor is within the history, and a move at either end leaves it.   *)
CursorWithinHistory ==
    /\ 0 <= history_cursor /\ history_cursor <= Len(history)
    /\ \A r \in Handled :
          r.moved # None =>
              /\ r.kind = "history_back" =>
                    r.moved.to = IF r.moved.from = r.moved.history_len
                                 THEN r.moved.from ELSE r.moved.from + 1
              /\ r.kind = "history_next" =>
                    r.moved.to = IF r.moved.from = 0 THEN 0 ELSE r.moved.from - 1

(* As C25 was stated: the cursor is within the history, a move at either   *)
(* end leaves it, and every study, reveal, rate and undo request that was  *)
(* answered has set it to 0.                                               *)
C25_EveryRateResets ==
    /\ CursorWithinHistory
    /\ served.kind \in {"study", "reveal", "rate", "undo"} => served.did_reset

(* C25: the cursor is within the history in every state, also between the  *)
(* statements of concurrent handlers; history/back at the oldest entry and *)
(* history/next at 0 leave it; study, reveal, undo, every accepted rate    *)
(* and every rejected rate from htmx have set it to 0 when they are        *)
(* answered; a rejected rate without htmx is redirected and has not.       *)
C25_CursorWithinHistory ==
    /\ CursorWithinHistory
    /\ served.kind \in {"study", "reveal", "undo"} => served.did_reset
    /\ served.kind = "rate" =>
          served.did_reset = ~(InvalidForm(served) /\ ~served.htmx)
    /\ (InvalidForm(served) /\ ~served.htmx) => served.status = 302

C25_Witness ==
    /\ served.kind = "history_back"
    /\ served.moved = [from |-> 1, history_len |-> 1, to |-> 1]
    /\ served.view = "history"
    /\ history_cursor = 1 /\ Len(history) = 1

(* The request of thread t after a step of it: still with the thread, or   *)
(* answered.                                                               *)
AfterStep(t) == IF reqs'[t] = NoRequest THEN served' ELSE reqs'[t]

(* C26: a lookup for cursor N with 1 <= N <= len(history) finds the card   *)
(* of the N-th entry from the end and the history view shows it; a lookup  *)
(* for a cursor beyond the history, which an undo of another thread may    *)
(* have shortened since the snapshot, finds no card and goes on to the     *)
(* fallback; no lookup fails on the index; and a history request that      *)
(* found no card, for cursor 0 as well, has reset the cursor and answers   *)
(* with the study view.                                                    *)
C26_HistoryLookup ==
    [][ /\ \A t \in Workers :
              (At(t, "lookup") /\ reqs'[t] # reqs[t]) =>
                  LET N == reqs[t].snap.history_cursor
                      after == AfterStep(t)
                  IN  /\ after.status # 500
                      /\ (1 <= N /\ N <= Len(history)) =>
                            /\ after.looked.found
                            /\ after.looked.card_key =
                                  history[Len(history) + 1 - N].card_key
                            /\ after.todo = <<>>
                            /\ after.status = 200 /\ after.view = "history"
                      /\ N > Len(history) =>
                            /\ ~after.looked.found
                            /\ after.todo = FallbackSteps
        /\ (served' # served /\ served'.looked # None) =>
              IF served'.looked.found
              THEN served'.view = "history"
              ELSE /\ served'.view = "study" /\ served'.status = 200
                   /\ served'.did_reset
      ]_vars

C26_Witness ==
    /\ served.kind = "history_back"
    /\ served.moved = [from |-> 0, history_len |-> 1, to |-> 1]
    /\ served.looked = [cursor |-> 1, found |-> FALSE]
    /\ served.view = "study" /\ served.did_reset
    /\ served.snap.history_len = 0
    /\ history = <<>>
    /\ snapshots.popped # None

(* An accepted rate request that has left its rating block.               *)
RatedAndLeft(r) ==
    /\ r.kind = "rate" /\ ~InvalidForm(r)
    /\ r.todo # <<>>
    /\ \A i \in DOMAIN r.todo : r.todo[i] \notin RatingSteps

(* C27: when rate calls save, the new state of its card is in the mapping; *)
(* when it goes on to the snapshot, whose block calls the selector, its    *)
(* save has returned; and whenever no handler is inside a critical         *)
(* section, and so whenever no request is in progress, the file of a       *)
(* store whose last save returned holds the mapping.                       *)
C27_SavedBeforeSelect ==
    /\ \A t \in Workers :
          LET r == reqs[t]
          IN  /\ At(t, "rate_save") =>
                    /\ Get(state, r.card_key) =
                          apply_rating(r.previous_state, r.rating, now)
                    /\ history # <<>>
                    /\ history[Len(history)].card_key = r.card_key
              /\ RatedAndLeft(r) => r.saved
    /\ (lock = Free /\ ~unsaved) =>
          /\ file.exists
          /\ load_from_disk(file) = state

C27_Witness ==
    /\ \A t \in Workers : reqs[t] = NoRequest
    /\ ~unsaved
    /\ served.kind = "undo" /\ served.saved /\ served.status = 200
    /\ Len(history) = 1
    /\ history[1].card_key \in DOMAIN state
    /\ served.entry.card_key \notin DOMAIN state
    /\ load_from_disk(file) = state
    /\ file.value.v.updated_at = JInt(now)

====
